---------------------------- MODULE Spec2Model ----------------------------
(***************************************************************************)
(* A model of the MRC-generation engine of kosmo-fast24: the concrete      *)
(* caches (FIFO, LFU, LRFU, 2Q), the SHARDS samplers, the reuse-distance   *)
(* histogram and the two drivers (Kosmo, MiniSim) behind Algorithm::handle.*)
(*                                                                         *)
(* Three specifications share the variables:                               *)
(*   Spec       one cache driven through the Cache trait                   *)
(*   SpecAlg    Algorithm::handle over Kosmo or MiniSim with SHARDS        *)
(*   SpecHist   one Histogram driven through increment and resize          *)
(* A specification leaves the variables of the others at their initial     *)
(* values.                                                                 *)
(***************************************************************************)
EXTENDS Integers, Sequences, FiniteSets, TLC

VARIABLES
    cache,      \* Spec: the cache under test (a record, see NewCache)
    last,       \* Spec: the last Cache call and its outcome (history)
    after,      \* Spec: per key, the other keys admitted after it (history)
    steps,      \* number of calls made so far (bounds the run)
    alg,        \* SpecAlg: the driver's state (Kosmo or MiniSim) and SHARDS
    pc,         \* SpecAlg: position inside Algorithm::handle
    cur,        \* SpecAlg: the access being handled
    hist,       \* SpecHist: the histogram
    hlast,      \* SpecHist: the last Histogram call (history)
    curves,     \* SpecCurve: the two curves being built and compared
    cres,       \* SpecCurve: the last Curve query and its result (history)
    emap,       \* SpecMap: the eviction map of one object
    mlast,      \* SpecMap: the last eviction-map call (history)
    par,        \* SpecPar: the tasks of one parallel fan-out and their results
    run,        \* SpecRun: the trace reader, its batch and the accesses handled
    stk         \* SpecStack: one reconstructed stack and what it handed out

cacheVars == <<cache, last, after>>
algVars   == <<alg, pc, cur>>
histVars  == <<hist, hlast>>
curveVars == <<curves, cres>>
mapVars   == <<emap, mlast>>
restVars  == <<curves, cres, emap, mlast, par, run, stk>>
vars      == <<cache, last, after, steps, alg, pc, cur, hist, hlast,
               curves, cres, emap, mlast, par, run, stk>>

\* The value of the variables a specification does not use.
CurveIdle == curves = <<>> /\ cres = <<>>
MapIdle   == emap = <<>> /\ mlast = <<>>
ParIdle   == par = <<>>
RunIdle   == run = <<>>
StackIdle == stk = <<>>
RestIdle  == CurveIdle /\ MapIdle /\ ParIdle /\ RunIdle /\ StackIdle

-----------------------------------------------------------------------------
(* Bounds of the model.                                                    *)

NumKeys     == 3    \* keys are 1..NumKeys
MaxObjSize  == 2    \* access sizes are 1..MaxObjSize
MaxCapacity == 3    \* cache capacities are 0..MaxCapacity
MaxSteps    == 4    \* calls per run

Keys       == 1 .. NumKeys
ObjSizes   == 1 .. MaxObjSize
Capacities == 0 .. MaxCapacity

-----------------------------------------------------------------------------
(* f64 values that the code only adds, multiplies and compares are kept as *)
(* exact fractions n/d in lowest terms.  Every value the model produces    *)
(* (counts scaled by ratios of powers of two, CRFs with p = 2) is a dyadic *)
(* rational of a few bits, which an f64 holds exactly.                     *)

RECURSIVE GCD(_, _)
GCD(a, b) == IF b = 0 THEN a ELSE GCD(b, a % b)

Abs(x) == IF x < 0 THEN -x ELSE x

Rat(n, d) ==
    LET g == GCD(Abs(n), d)
    IN  IF n = 0 THEN [n |-> 0, d |-> 1] ELSE [n |-> n \div g, d |-> d \div g]

RZero == [n |-> 0, d |-> 1]
ROne  == [n |-> 1, d |-> 1]
RAdd(x, y) == Rat(x.n * y.d + y.n * x.d, x.d * y.d)
RSub(x, y) == Rat(x.n * y.d - y.n * x.d, x.d * y.d)
RMul(x, y) == Rat(x.n * y.n, x.d * y.d)
RDiv(x, y) == Rat(x.n * y.d, x.d * y.n)        \* y > 0
RLe(x, y)  == x.n * y.d <= y.n * x.d
RLt(x, y)  == x.n * y.d <  y.n * x.d

\* (x * size as f64) as u64 for a fraction x >= 0: the floor of the product
FloorMul(x, size) == (x.n * size) \div x.d

RECURSIVE Pow2(_)
Pow2(k) == IF k = 0 THEN 1 ELSE 2 * Pow2(k - 1)

RECURSIVE SumSizes(_)
SumSizes(s) == IF s = <<>> THEN 0 ELSE Head(s).size + SumSizes(Tail(s))

SeqKeys(s) == {s[i].key : i \in 1 .. Len(s)}

\* VecList / Vec operations on a sequence whose front is index 1
push_front(s, x) == <<x>> \o s
back(s)          == s[Len(s)]
pop_back(s)      == SubSeq(s, 1, Len(s) - 1)
RemoveAt(s, i)   == SubSeq(s, 1, i - 1) \o SubSeq(s, i + 1, Len(s))
InsertAt(s, i, x) == SubSeq(s, 1, i - 1) \o <<x>> \o SubSeq(s, i, Len(s))
RemoveKey(s, k)  == SelectSeq(s, LAMBDA o : o.key # k)

-----------------------------------------------------------------------------
(* Access and Object                                                       *)

Access(ts, cmd, k, sz) == [timestamp |-> ts, command |-> cmd, key |-> k, size |-> sz]

\* cache::Object::new
Object(access) == [key |-> access.key, size |-> access.size]

\* Access::is_valid_self_populating
is_valid_self_populating(access) == access.command = "Get" /\ access.size > 0

-----------------------------------------------------------------------------
(* The caches.  One record shape serves the four policies; a policy uses   *)
(* the fields of its own struct and leaves the others empty.               *)
(*   map          the key index: key -> TRUE (FIFO, LFU: the value is a    *)
(*                list position), key -> LrfuObject (LRFU), key -> "Ain" | *)
(*                "Aout" | "Am" (2Q: the StackIndex variant)               *)
(*   stack        FIFO: VecList<Object>, front first                       *)
(*                LRFU: BTreeSet<LrfuObject> in ascending Ord order        *)
(*   count_lists  LFU: VecList<CountList>, front first                     *)
(*   ain/aout/am  2Q: Stack {stack, size}                                  *)
(*   status       "ok", or how a call failed to return: "panic" (an        *)
(*                unwrap on None, or a checked subtraction overflowing)    *)
(*                or "hang" (a loop that no longer makes progress)         *)

EmptyStack == [stack |-> <<>>, size |-> 0]

NewCache(policy, size, cfg) ==
    [policy |-> policy, max_size |-> size, current_size |-> 0,
     count |-> RZero, hits |-> RZero,
     map |-> <<>>, stack |-> <<>>, count_lists |-> <<>>,
     ain |-> EmptyStack, aout |-> EmptyStack, am |-> EmptyStack,
     kin |-> cfg.kin, kout |-> cfg.kout, lambda |-> cfg.lambda,
     intrinsic_timestamp |-> 0,
     overflow_checks |-> cfg.overflow_checks,
     status |-> "ok"]

\* process_has: self.map.contains_key(&key)
process_has(c, key) == key \in DOMAIN c.map

MapInsert(m, k, v) == [x \in (DOMAIN m) \cup {k} |-> IF x = k THEN v ELSE m[x]]
MapRemove(m, k)    == [x \in (DOMAIN m) \ {k} |-> m[x]]

-----------------------------------------------------------------------------
(* FifoCache                                                               *)

RECURSIVE FifoCache_reduce(_, _)
FifoCache_reduce(c, target_size) ==
    IF c.current_size <= target_size THEN c
    ELSE IF c.stack = <<>> THEN [c EXCEPT !.status = "hang"]
    ELSE LET object == back(c.stack)
         IN  FifoCache_reduce(
                 [c EXCEPT !.stack = pop_back(c.stack),
                           !.map = MapRemove(c.map, object.key),
                           !.current_size = c.current_size - object.size],
                 target_size)

\* mutant: a hit moves the object to the front of the stack
M_FifoCache_process_get_move_front(c, access) ==
    IF ~process_has(c, access.key) THEN [c |-> c, hit |-> FALSE]
    ELSE LET i == CHOOSE j \in 1 .. Len(c.stack) : c.stack[j].key = access.key
         IN  [c |-> [c EXCEPT !.stack = push_front(RemoveAt(c.stack, i), c.stack[i])],
              hit |-> TRUE]

FifoCache_process_get(c, access) ==
    [c |-> c, hit |-> process_has(c, access.key)]

\* mutant: the duplicate-key check is missing
M_FifoCache_process_set_no_has(c, access) ==
    IF access.size > c.max_size THEN c
    ELSE LET r == FifoCache_reduce(c, c.max_size - access.size)
         IN  IF r.status # "ok" THEN r
             ELSE [r EXCEPT !.stack = push_front(r.stack, Object(access)),
                            !.map = MapInsert(r.map, access.key, TRUE),
                            !.current_size = r.current_size + access.size]

FifoCache_process_set(c, access) ==
    IF access.size > c.max_size \/ process_has(c, access.key) THEN c
    ELSE LET r == FifoCache_reduce(c, c.max_size - access.size)
         IN  IF r.status # "ok" THEN r
             ELSE [r EXCEPT !.stack = push_front(r.stack, Object(access)),
                            !.map = MapInsert(r.map, access.key, TRUE),
                            !.current_size = r.current_size + access.size]

FifoCache_process_del(c, key) ==
    IF ~process_has(c, key) THEN c
    ELSE LET i == CHOOSE j \in 1 .. Len(c.stack) : c.stack[j].key = key
         IN  [c EXCEPT !.map = MapRemove(c.map, key),
                       !.stack = RemoveAt(c.stack, i),
                       !.current_size = c.current_size - c.stack[i].size]

-----------------------------------------------------------------------------
(* LfuCache.  A CountList is [count, list]; list is a VecList<LfuObject>,  *)
(* front first.  The LfuObjectIndex a key maps to is the position of the   *)
(* object, found here by its key.                                          *)

CountList(count) == [count |-> count, list |-> <<>>]

\* the position in count_lists of the CountList that holds key
CountListIndexOf(c, key) ==
    CHOOSE i \in 1 .. Len(c.count_lists) : key \in SeqKeys(c.count_lists[i].list)

LfuObjectOf(c, key) ==
    LET l == c.count_lists[CountListIndexOf(c, key)].list
    IN  l[CHOOSE j \in 1 .. Len(l) : l[j].key = key]

\* mutant: the victim is taken from the front of the lowest-count list (the
\* newest object of the bucket) instead of its back
RECURSIVE M_LfuCache_reduce_pop_front(_, _)
M_LfuCache_reduce_pop_front(c, target_size) ==
    IF c.current_size <= target_size THEN c
    ELSE IF c.count_lists = <<>> THEN [c EXCEPT !.status = "panic"]
    ELSE LET count_list == c.count_lists[1]
             lfu_object == Head(count_list.list)
             popped     == Tail(count_list.list)
         IN  M_LfuCache_reduce_pop_front(
                 [c EXCEPT !.map = MapRemove(c.map, lfu_object.key),
                           !.current_size = c.current_size - lfu_object.size,
                           !.count_lists =
                               IF popped = <<>> THEN Tail(c.count_lists)
                               ELSE [c.count_lists EXCEPT ![1].list = popped]],
                 target_size)

RECURSIVE LfuCache_reduce(_, _)
LfuCache_reduce(c, target_size) ==
    IF c.current_size <= target_size THEN c
    ELSE IF c.count_lists = <<>> THEN [c EXCEPT !.status = "panic"]
    ELSE LET count_list == c.count_lists[1]
             lfu_object == back(count_list.list)
             popped     == pop_back(count_list.list)
         IN  LfuCache_reduce(
                 [c EXCEPT !.map = MapRemove(c.map, lfu_object.key),
                           !.current_size = c.current_size - lfu_object.size,
                           !.count_lists =
                               IF popped = <<>> THEN Tail(c.count_lists)
                               ELSE [c.count_lists EXCEPT ![1].list = popped]],
                 target_size)

\* mutant: the object always moves to a new CountList, also when the next
\* list already has the count
M_LfuCache_process_get_always_new(c, access) ==
    IF ~process_has(c, access.key) THEN [c |-> c, hit |-> FALSE]
    ELSE
    LET prev_index    == CountListIndexOf(c, access.key)
        prev_count    == c.count_lists[prev_index].count
        lfu_object    == LfuObjectOf(c, access.key)
        removed       == [c.count_lists EXCEPT ![prev_index].list =
                              RemoveKey(c.count_lists[prev_index].list, access.key)]
        prev_is_empty == removed[prev_index].list = <<>>
        moved         == InsertAt(removed, prev_index + 1,
                             [count |-> prev_count + 1, list |-> <<lfu_object>>])
        lists         == IF prev_is_empty THEN RemoveAt(moved, prev_index) ELSE moved
    IN  [c |-> [c EXCEPT !.count_lists = lists], hit |-> TRUE]

LfuCache_process_get(c, access) ==
    IF ~process_has(c, access.key) THEN [c |-> c, hit |-> FALSE]
    ELSE
    LET prev_index    == CountListIndexOf(c, access.key)
        prev_count    == c.count_lists[prev_index].count
        lfu_object    == LfuObjectOf(c, access.key)
        removed       == [c.count_lists EXCEPT ![prev_index].list =
                              RemoveKey(c.count_lists[prev_index].list, access.key)]
        prev_is_empty == removed[prev_index].list = <<>>
        has_next      == prev_index < Len(c.count_lists)
        joins_next    == has_next /\ removed[prev_index + 1].count = prev_count + 1
        moved         ==
            IF joins_next
            THEN [removed EXCEPT ![prev_index + 1].list =
                      push_front(removed[prev_index + 1].list, lfu_object)]
            ELSE InsertAt(removed, prev_index + 1,
                      [count |-> prev_count + 1, list |-> <<lfu_object>>])
        lists         == IF prev_is_empty THEN RemoveAt(moved, prev_index) ELSE moved
    IN  [c |-> [c EXCEPT !.count_lists = lists], hit |-> TRUE]

LfuCache_process_set(c, access) ==
    IF access.size > c.max_size \/ process_has(c, access.key) THEN c
    ELSE LET r == LfuCache_reduce(c, c.max_size - access.size)
             lists == IF r.count_lists = <<>> \/ r.count_lists[1].count > 1
                      THEN push_front(r.count_lists, CountList(1))
                      ELSE r.count_lists
         IN  IF r.status # "ok" THEN r
             ELSE [r EXCEPT !.count_lists =
                                [lists EXCEPT ![1].list =
                                    push_front(lists[1].list, Object(access))],
                            !.map = MapInsert(r.map, access.key, TRUE),
                            !.current_size = r.current_size + access.size]

LfuCache_process_del(c, key) ==
    IF ~process_has(c, key) THEN c
    ELSE LET i       == CountListIndexOf(c, key)
             object  == LfuObjectOf(c, key)
             removed == [c.count_lists EXCEPT ![i].list =
                             RemoveKey(c.count_lists[i].list, key)]
         IN  [c EXCEPT !.map = MapRemove(c.map, key),
                       !.current_size = c.current_size - object.size,
                       !.count_lists = IF removed[i].list = <<>>
                                       THEN RemoveAt(removed, i) ELSE removed]

-----------------------------------------------------------------------------
(* LrfuCache, with p = 2 and lambda 0 or 1, where f(x) = (1/p)^(lambda x)  *)
(* is 1 or 2^-x exactly.                                                   *)

LrfuCache_f(c, x) == IF c.lambda = 0 THEN ROne ELSE Rat(1, Pow2(x))

get_updated_crf(c, now, lrfu_object) ==
    RAdd(LrfuCache_f(c, 0),
         RMul(LrfuCache_f(c, now - lrfu_object.last_access), lrfu_object.crf))

\* impl Ord for LrfuObject: a sorts before b (Ordering::Less); objects of
\* one key compare Equal
LrfuObject_less(a, b) ==
    /\ a.key # b.key
    /\ \/ RLt(b.crf, a.crf)
       \/ a.crf = b.crf /\ b.last_access < a.last_access

\* BTreeSet::insert: nothing is added when an element compares Equal
BTreeSet_insert(stack, x) ==
    IF x.key \in SeqKeys(stack) THEN stack
    ELSE InsertAt(stack,
                  1 + Cardinality({i \in 1 .. Len(stack) : LrfuObject_less(stack[i], x)}),
                  x)

RECURSIVE LrfuCache_reduce(_, _)
LrfuCache_reduce(c, target_size) ==
    IF c.current_size <= target_size THEN c
    ELSE IF c.stack = <<>> THEN [c EXCEPT !.status = "hang"]
    ELSE LET lrfu_object == back(c.stack)
         IN  LrfuCache_reduce(
                 [c EXCEPT !.stack = pop_back(c.stack),
                           !.map = MapRemove(c.map, lrfu_object.key),
                           !.current_size = c.current_size - lrfu_object.size],
                 target_size)

LrfuCache_process_get(c, access) ==
    LET now == c.intrinsic_timestamp + 1
        t   == [c EXCEPT !.intrinsic_timestamp = now]
    IN  IF ~process_has(c, access.key) THEN [c |-> t, hit |-> FALSE]
        ELSE LET old     == c.map[access.key]
                 updated == [old EXCEPT !.last_access = now,
                                        !.crf = get_updated_crf(c, now, old)]
             IN  [c |-> [t EXCEPT !.map = MapInsert(c.map, access.key, updated),
                                  !.stack = BTreeSet_insert(
                                                RemoveKey(c.stack, access.key), updated)],
                  hit |-> TRUE]

LrfuCache_process_set(c, access) ==
    LET now == c.intrinsic_timestamp + 1
        t   == [c EXCEPT !.intrinsic_timestamp = now]
    IN  IF access.size > c.max_size \/ process_has(c, access.key) THEN t
        ELSE LET r == LrfuCache_reduce(t, t.max_size - access.size)
                 lrfu_object == [key |-> access.key, size |-> access.size,
                                 last_access |-> now, crf |-> LrfuCache_f(c, 0)]
             IN  IF r.status # "ok" THEN r
                 ELSE [r EXCEPT !.map = MapInsert(r.map, access.key, lrfu_object),
                                !.stack = BTreeSet_insert(r.stack, lrfu_object),
                                !.current_size = r.current_size + access.size]

\* mutant: del removes the key from the index and leaves its object in the
\* stack
M_LrfuCache_process_del_keep_stack(c, key) ==
    LET t == [c EXCEPT !.intrinsic_timestamp = c.intrinsic_timestamp + 1]
    IN  IF ~process_has(c, key) THEN t
        ELSE [t EXCEPT !.map = MapRemove(c.map, key),
                       !.current_size = c.current_size - c.map[key].size]

LrfuCache_process_del(c, key) ==
    LET t == [c EXCEPT !.intrinsic_timestamp = c.intrinsic_timestamp + 1]
    IN  IF ~process_has(c, key) THEN t
        ELSE [t EXCEPT !.map = MapRemove(c.map, key),
                       !.current_size = c.current_size - c.map[key].size,
                       !.stack = RemoveKey(c.stack, key)]

-----------------------------------------------------------------------------
(* TwoQCache                                                               *)

\* u64 and u32 arithmetic of reduce: (self.max_size - target_size) as u32.
\* The checker's integers stop short of 2^32, so the model wraps at 2^30,
\* which like 2^32 lies above every size that occurs in it.
U32_MODULUS == Pow2(30)

Stack_push_front(st, object) ==
    [stack |-> push_front(st.stack, object), size |-> st.size + object.size]
Stack_pop_back(st) ==
    [stack |-> pop_back(st.stack), size |-> st.size - back(st.stack).size]
Stack_remove(st, key) ==
    LET i == CHOOSE j \in 1 .. Len(st.stack) : st.stack[j].key = key
    IN  [stack |-> RemoveAt(st.stack, i), size |-> st.size - st.stack[i].size]
StackObject(st, key) ==
    st.stack[CHOOSE j \in 1 .. Len(st.stack) : st.stack[j].key = key]

TwoQCache_current_size(c) == c.ain.size + c.aout.size + c.am.size
ain_max_size(c)  == FloorMul(c.kin, c.max_size)
is_aout_full(c)  == c.aout.size > FloorMul(c.kout, c.max_size)
can_ain_fit(c, object_size) == c.ain.size + object_size <= ain_max_size(c)

evict_aout(c) ==
    IF c.aout.stack = <<>> THEN c
    ELSE [c EXCEPT !.aout = Stack_pop_back(c.aout),
                   !.map = MapRemove(c.map, back(c.aout.stack).key)]

evict_am(c) ==
    IF c.am.stack = <<>> THEN c
    ELSE [c EXCEPT !.am = Stack_pop_back(c.am),
                   !.map = MapRemove(c.map, back(c.am.stack).key)]

promote_ain_object(c) ==
    LET object == back(c.ain.stack)
    IN  [c EXCEPT !.ain = Stack_pop_back(c.ain),
                  !.aout = Stack_push_front(c.aout, object),
                  !.map = MapInsert(c.map, object.key, "Aout")]

\* while !self.ain.is_empty() && !self.can_ain_fit(object_size)
RECURSIVE TwoQ_reduce_ain(_, _)
TwoQ_reduce_ain(c, object_size) ==
    IF c.ain.stack # <<>> /\ ~can_ain_fit(c, object_size)
    THEN TwoQ_reduce_ain(promote_ain_object(c), object_size)
    ELSE c

\* mutant: Aout tails are evicted only while the total is above the target
RECURSIVE M_TwoQ_reduce_aout_no_share(_, _)
M_TwoQ_reduce_aout_no_share(c, target_size) ==
    IF c.aout.stack # <<>> /\ TwoQCache_current_size(c) > target_size
    THEN M_TwoQ_reduce_aout_no_share(evict_aout(c), target_size)
    ELSE c

\* while self.is_aout_full() || (!self.aout.is_empty() && current_size > target)
RECURSIVE TwoQ_reduce_aout(_, _)
TwoQ_reduce_aout(c, target_size) ==
    IF is_aout_full(c) \/ (c.aout.stack # <<>> /\ TwoQCache_current_size(c) > target_size)
    THEN TwoQ_reduce_aout(evict_aout(c), target_size)
    ELSE c

\* while self.current_size() > target_size { self.evict_am() }: with Am
\* empty evict_am changes nothing and the loop spins
RECURSIVE TwoQ_reduce_am(_, _)
TwoQ_reduce_am(c, target_size) ==
    IF TwoQCache_current_size(c) <= target_size THEN c
    ELSE IF c.am.stack = <<>> THEN [c EXCEPT !.status = "hang"]
    ELSE TwoQ_reduce_am(evict_am(c), target_size)

\* mutant: the loop that evicts Am tails is missing
M_TwoQCache_reduce_no_am(c, target_size) ==
    IF target_size > c.max_size /\ c.overflow_checks
    THEN [c EXCEPT !.status = "panic"]
    ELSE LET object_size == (c.max_size - target_size) % U32_MODULUS
         IN  TwoQ_reduce_aout(TwoQ_reduce_ain(c, object_size), target_size)

TwoQCache_reduce(c, target_size) ==
    IF target_size > c.max_size /\ c.overflow_checks
    THEN [c EXCEPT !.status = "panic"]
    ELSE LET object_size == (c.max_size - target_size) % U32_MODULUS
         IN  TwoQ_reduce_am(
                 TwoQ_reduce_aout(TwoQ_reduce_ain(c, object_size), target_size),
                 target_size)

TwoQCache_process_get(c, access) ==
    IF ~process_has(c, access.key) THEN [c |-> c, hit |-> FALSE]
    ELSE IF c.map[access.key] = "Aout"
    THEN [c |-> [c EXCEPT !.aout = Stack_remove(c.aout, access.key),
                          !.am = Stack_push_front(c.am, StackObject(c.aout, access.key)),
                          !.map = MapInsert(c.map, access.key, "Am")],
          hit |-> TRUE]
    ELSE IF c.map[access.key] = "Am"
    THEN [c |-> [c EXCEPT !.am = Stack_push_front(Stack_remove(c.am, access.key),
                                                  StackObject(c.am, access.key))],
          hit |-> TRUE]
    ELSE [c |-> c, hit |-> TRUE]

\* mutant: the new object is not entered into the key index
M_TwoQCache_process_set_no_index(c, access) ==
    IF access.size > c.max_size \/ process_has(c, access.key) THEN c
    ELSE LET r == TwoQCache_reduce(c, c.max_size - access.size)
         IN  IF r.status # "ok" THEN r
             ELSE [r EXCEPT !.ain = Stack_push_front(r.ain, Object(access))]

TwoQCache_process_set(c, access) ==
    IF access.size > c.max_size \/ process_has(c, access.key) THEN c
    ELSE LET r == TwoQCache_reduce(c, c.max_size - access.size)
         IN  IF r.status # "ok" THEN r
             ELSE [r EXCEPT !.ain = Stack_push_front(r.ain, Object(access)),
                            !.map = MapInsert(r.map, access.key, "Ain")]

TwoQCache_process_del(c, key) ==
    IF ~process_has(c, key) THEN c
    ELSE LET m == MapRemove(c.map, key)
         IN  CASE c.map[key] = "Ain"  -> [c EXCEPT !.map = m, !.ain = Stack_remove(c.ain, key)]
               [] c.map[key] = "Aout" -> [c EXCEPT !.map = m, !.aout = Stack_remove(c.aout, key)]
               [] c.map[key] = "Am"   -> [c EXCEPT !.map = m, !.am = Stack_remove(c.am, key)]

-----------------------------------------------------------------------------
(* trait Cache: the provided methods and the dispatch to the policy        *)

\* fn size(&self): the capacity
size(c) == c.max_size

current_size(c) == IF c.policy = "2q" THEN TwoQCache_current_size(c) ELSE c.current_size

process_get(c, access) ==
    CASE c.policy = "fifo" -> FifoCache_process_get(c, access)
      [] c.policy = "lfu"  -> LfuCache_process_get(c, access)
      [] c.policy = "lrfu" -> LrfuCache_process_get(c, access)
      [] c.policy = "2q"   -> TwoQCache_process_get(c, access)

process_set(c, access) ==
    CASE c.policy = "fifo" -> FifoCache_process_set(c, access)
      [] c.policy = "lfu"  -> LfuCache_process_set(c, access)
      [] c.policy = "lrfu" -> LrfuCache_process_set(c, access)
      [] c.policy = "2q"   -> TwoQCache_process_set(c, access)

process_del(c, key) ==
    CASE c.policy = "fifo" -> FifoCache_process_del(c, key)
      [] c.policy = "lfu"  -> LfuCache_process_del(c, key)
      [] c.policy = "lrfu" -> LrfuCache_process_del(c, key)
      [] c.policy = "2q"   -> TwoQCache_process_del(c, key)

reduce(c, target_size) ==
    CASE c.policy = "fifo" -> FifoCache_reduce(c, target_size)
      [] c.policy = "lfu"  -> LfuCache_reduce(c, target_size)
      [] c.policy = "lrfu" -> LrfuCache_reduce(c, target_size)
      [] c.policy = "2q"   -> TwoQCache_reduce(c, target_size)

\* fn resize: self.reduce(size); self.max_size = size
resize(c, new_size) ==
    LET r == reduce(c, new_size)
    IN  IF r.status # "ok" THEN r ELSE [r EXCEPT !.max_size = new_size]

\* fn rescale: self.count *= ratio; self.hits *= ratio
rescale(c, ratio) ==
    [c EXCEPT !.count = RMul(c.count, ratio), !.hits = RMul(c.hits, ratio)]

\* fn miss_ratio
miss_ratio(c) ==
    IF RLt(RZero, c.count) THEN RSub(ROne, RDiv(c.hits, c.count)) ELSE RZero

clear_counters(c) == [c EXCEPT !.count = RZero, !.hits = RZero]

\* mutant: increment_count is not called
M_Cache_get_no_count(c, access) ==
    IF access.size > size(c) THEN [c |-> c, hit |-> FALSE]
    ELSE LET g == process_get(c, access)
         IN  IF g.hit
             THEN [c |-> [g.c EXCEPT !.hits = RAdd(g.c.hits, ROne)], hit |-> TRUE]
             ELSE [c |-> g.c, hit |-> FALSE]

\* fn get (provided)
Cache_get(c, access) ==
    IF access.size > size(c) THEN [c |-> c, hit |-> FALSE]
    ELSE LET counted == [c EXCEPT !.count = RAdd(c.count, ROne)]
             g       == process_get(counted, access)
         IN  IF g.hit
             THEN [c |-> [g.c EXCEPT !.hits = RAdd(g.c.hits, ROne)], hit |-> TRUE]
             ELSE [c |-> g.c, hit |-> FALSE]

\* fn set (provided)
Cache_set(c, access) ==
    IF access.size > size(c) THEN c ELSE process_set(c, access)

\* fn del (provided)
Cache_del(c, key) == process_del(c, key)

\* fn has (provided)
has(c, key) == process_has(c, key)

\* fn handle_self_populating (provided)
handle_self_populating(c, access) ==
    LET g == Cache_get(c, access)
    IN  IF g.hit THEN g ELSE [c |-> Cache_set(g.c, access), hit |-> FALSE]

\* the stored objects of a cache, as the policy structure lists them
StoredObjects(c) ==
    CASE c.policy = "fifo" -> c.stack
      [] c.policy = "lrfu" -> c.stack
      [] c.policy = "lfu"  ->
            LET RECURSIVE Flat(_)
                Flat(ls) == IF ls = <<>> THEN <<>> ELSE Head(ls).list \o Flat(Tail(ls))
            IN  Flat(c.count_lists)
      [] c.policy = "2q"   -> c.ain.stack \o c.aout.stack \o c.am.stack

StoredSize(c) == SumSizes(StoredObjects(c))

-----------------------------------------------------------------------------
(* Spec: one cache, called through the Cache trait in any order.           *)

Quarter == Rat(1, 4)
Half    == Rat(1, 2)

\* The configurations a cache is built with: CachePolicy::new_cache.  For 2Q
\* kin > 0, kout > 0 and kin + kout <= 1 (the asserts of TwoQCache::new); for
\* LRFU p = 2 and lambda in {0, 1}.  overflow_checks is the build: a debug
\* build panics on an overflowing u64 subtraction, a release build wraps.
NoCfg == [kin |-> RZero, kout |-> RZero, lambda |-> 0, overflow_checks |-> FALSE]
CacheConfigs ==
    {<<"fifo", NoCfg>>, <<"lfu", NoCfg>>,
     <<"lrfu", [NoCfg EXCEPT !.lambda = 0]>>, <<"lrfu", [NoCfg EXCEPT !.lambda = 1]>>}
    \cup {<<"2q", [NoCfg EXCEPT !.kin = Half, !.kout = Half, !.overflow_checks = b]>> :
             b \in BOOLEAN}
    \cup {<<"2q", [NoCfg EXCEPT !.kin = Quarter, !.kout = Half]>>}

\* the ratios rescale is called with: new_global_t / old_global_t after
\* SHARDS lowered global_t, so 0 <= ratio < 1
Ratios == {RZero, Half}

NoCall == [op |-> "new", key |-> 0, size |-> 0, target |-> 0, hit |-> FALSE,
           returned |-> TRUE, stored_before |-> FALSE, follows_set |-> FALSE,
           evicted |-> 0, evicted_am |-> 0]

NoAfter == [k \in Keys |-> [others |-> {}, hit |-> FALSE]]

\* history: for every stored key, the other keys admitted since it was
\* admitted (and not deleted since), and whether a get has hit it since
NextAfter(c, c2, op, key, hit) ==
    [k \in Keys |->
        IF ~has(c2, k) THEN [others |-> {}, hit |-> FALSE]
        ELSE IF op = "del"
        THEN [after[k] EXCEPT !.others = {o \in after[k].others : o.key # key}]
        ELSE IF op \in {"get", "set", "handle_self_populating"}
        THEN IF ~has(c, key) /\ has(c2, key)
             THEN IF k = key
                  THEN [others |-> {}, hit |-> FALSE]
                  ELSE [after[k] EXCEPT !.others =
                           {o \in after[k].others : o.key # key}
                               \cup {[key |-> key, size |-> SumSizes(
                                        SelectSeq(StoredObjects(c2), LAMBDA o : o.key = key))]}]
             ELSE IF k = key /\ hit THEN [after[k] EXCEPT !.hit = TRUE]
             ELSE after[k]
        ELSE after[k]]

CacheInit ==
    /\ cache \in {NewCache(cfg[1], MaxCapacity, cfg[2]) : cfg \in CacheConfigs}
    /\ last = NoCall
    /\ after = NoAfter

Call(op, key, sz, target, c2, hit) ==
    /\ cache.status = "ok"
    /\ steps < MaxSteps
    /\ steps' = steps + 1
    /\ cache' = c2
    /\ last' = [op |-> op, key |-> key, size |-> sz, target |-> target, hit |-> hit,
                returned |-> c2.status = "ok",
                stored_before |-> has(cache, key),
                evicted |-> Cardinality((DOMAIN cache.map) \ (DOMAIN c2.map)),
                evicted_am |-> IF cache.policy = "2q"
                               THEN Cardinality({k \in (DOMAIN cache.map) \ (DOMAIN c2.map) :
                                                    cache.map[k] = "Am"})
                               ELSE 0,
                follows_set |-> /\ op = "get"
                                /\ last.op = "set" /\ last.returned
                                /\ last.key = key /\ last.size = sz
                                /\ sz <= cache.max_size]
    /\ after' = NextAfter(cache, c2, op, key, hit)

Get ==
    \E k \in Keys, sz \in ObjSizes :
        LET g == Cache_get(cache, Access(0, "Get", k, sz))
        IN  Call("get", k, sz, 0, g.c, g.hit)

Set ==
    \E k \in Keys, sz \in ObjSizes :
        Call("set", k, sz, 0, Cache_set(cache, Access(0, "Set", k, sz)), FALSE)

Del ==
    \E k \in Keys : Call("del", k, 0, 0, Cache_del(cache, k), FALSE)

HandleSelfPopulating ==
    \E k \in Keys, sz \in ObjSizes :
        LET g == handle_self_populating(cache, Access(0, "Get", k, sz))
        IN  Call("handle_self_populating", k, sz, 0, g.c, g.hit)

Reduce ==
    \E t \in Capacities : Call("reduce", 0, 0, t, reduce(cache, t), FALSE)

Resize ==
    \E t \in Capacities : Call("resize", 0, 0, t, resize(cache, t), FALSE)

Rescale ==
    \E r \in Ratios : Call("rescale", 0, 0, 0, rescale(cache, r), FALSE)

CacheNext == Get \/ Set \/ Del \/ HandleSelfPopulating \/ Reduce \/ Resize \/ Rescale

-----------------------------------------------------------------------------
AlgIdle  == [kind |-> "none"]
HistIdle == [kind |-> "none"]

Init ==
    /\ CacheInit
    /\ steps = 0
    /\ alg = AlgIdle /\ pc = "idle" /\ cur = NoCall
    /\ hist = HistIdle /\ hlast = NoCall
    /\ RestIdle

Next == CacheNext /\ UNCHANGED <<algVars, histVars, restVars>>

Spec == Init /\ [][Next]_vars

-----------------------------------------------------------------------------
(* Properties of the caches (checked under Spec)                           *)

\* what decides the eviction order of a cache: the index and the policy
\* structure with everything stored in it
PolicyStructure(c) == <<c.map, c.stack, c.count_lists, c.ain, c.aout, c.am>>

SizeOfStored(c, k) == SumSizes(SelectSeq(StoredObjects(c), LAMBDA o : o.key = k))

RECURSIVE SumOthers(_)
SumOthers(S) ==
    IF S = {} THEN 0 ELSE LET o == CHOOSE x \in S : TRUE IN o.size + SumOthers(S \ {o})

\* C1: for every cache, after any sequence of get, set, del,
\* handle_self_populating, reduce, resize and rescale calls, hits <= count
\* and 0 <= miss_ratio <= 1, and when a set call has returned the stored
\* objects' total size is at most max_size.
C1_CounterAndSizeInvariant ==
    /\ RLe(cache.hits, cache.count)
    /\ RLe(RZero, miss_ratio(cache))
    /\ RLe(miss_ratio(cache), ROne)
    /\ (last.op \in {"set", "handle_self_populating"} /\ last.returned)
           => StoredSize(cache) <= cache.max_size

\* a set returned after evicting to make room, in a cache whose counters
\* record hits and misses
C1_Witness ==
    /\ last.op = "set" /\ last.returned /\ last.evicted > 0
    /\ StoredSize(cache) = cache.max_size
    /\ RLt(RZero, cache.hits) /\ RLt(cache.hits, cache.count)

\* C2: for every policy and every access with size <= max_size, has(key) is
\* true right after set(access) returns, whether or not the key was stored.
C2_SetThenHas ==
    (last.op = "set" /\ last.returned /\ last.size <= cache.max_size)
        => has(cache, last.key)

\* a set of a key that was not stored, which had to evict another object
C2_Witness ==
    /\ last.op = "set" /\ last.returned /\ last.size <= cache.max_size
    /\ ~last.stored_before /\ last.evicted > 0
    /\ has(cache, last.key)

\* a get that directly follows set(access) with the same key and size, the
\* size being at most max_size, is a hit
GetAfterSetHits == last.follows_set => last.hit

OthersSize(k) == SumOthers(after[k].others)

\* the key holds a place in the eviction order that newly set keys do not
\* reach: never in FIFO; in 2Q once a hit has promoted it to Am; in LFU and
\* LRFU once it has been hit (its count, or CRF, is above a new key's)
Protected(k) ==
    CASE cache.policy = "fifo" -> FALSE
      [] cache.policy = "2q"   -> has(cache, k) /\ cache.map[k] = "Am"
      [] OTHER                 -> after[k].hit

\* C3 as stated: a get directly after set is a hit, and once other keys
\* whose sizes total more than max_size - size have been set after a key,
\* every further get for that key is a miss (the key is no longer stored).
C3_Original ==
    /\ GetAfterSetHits
    /\ \A k \in Keys :
          (has(cache, k) /\ cache.status = "ok")
              => OthersSize(k) <= cache.max_size - SizeOfStored(cache, k)

\* C3 amended: the same, except that the second half holds in 2Q only while
\* the key has not been promoted to Am, and in LFU and LRFU only while the
\* key has not been hit since it was set.
C3_Amended ==
    /\ GetAfterSetHits
    /\ \A k \in Keys :
          (has(cache, k) /\ cache.status = "ok" /\ ~Protected(k))
              => OthersSize(k) <= cache.max_size - SizeOfStored(cache, k)
    /\ \A k \in Keys :
          (last.op = "get" /\ last.key = k /\ ~Protected(k) /\ ~last.stored_before)
              => ~last.hit

\* a get misses on a key that was set and then pushed out by other keys set
\* after it
C3_Witness ==
    \E k \in Keys :
        /\ last.op = "set" /\ last.key # k /\ last.evicted > 0
        /\ ~has(cache, k)
        /\ \E j \in Keys : j # k /\ has(cache, j) /\ Cardinality(after[j].others) > 0

\* C4: a get whose size exceeds max_size is a miss and changes neither
\* count, hits nor the stored objects; a set whose size exceeds max_size or
\* whose key is already stored leaves the stored objects, their eviction
\* order and current_size unchanged.
C4_RejectedCallFrame ==
    [][ /\ (steps' = steps + 1 /\ last'.op = "get" /\ last'.size > cache.max_size)
            => /\ ~last'.hit
               /\ cache'.count = cache.count /\ cache'.hits = cache.hits
               /\ PolicyStructure(cache') = PolicyStructure(cache)
        /\ (steps' = steps + 1 /\ last'.op = "set"
              /\ (last'.size > cache.max_size \/ has(cache, last'.key)))
            => /\ PolicyStructure(cache') = PolicyStructure(cache)
               /\ current_size(cache') = current_size(cache)
      ]_vars

\* a set of a key that is already stored, in a cache holding two objects
C4_Witness ==
    /\ last.op = "set" /\ last.stored_before /\ last.size <= cache.max_size
    /\ Cardinality(DOMAIN cache.map) >= 2

\* what reduce and resize leave behind when they return
PostOnReturn ==
    /\ (last.op = "reduce" /\ last.returned) => current_size(cache) <= last.target
    /\ (last.op = "resize" /\ last.returned)
           => cache.max_size = last.target /\ current_size(cache) <= last.target

\* C5: for every policy reduce(target) returns with current_size <= target,
\* and resize(size) returns with max_size = size and current_size <= size,
\* for sizes below and above the previous max_size.
C5_ReduceResizePost ==
    /\ last.op \in {"reduce", "resize"} => last.returned
    /\ PostOnReturn

\* every reduce and resize that returns leaves the promised state, and the
\* calls that do not return are those of a 2Q cache built with overflow
\* checks whose target is above max_size
C5_OnReturn ==
    /\ PostOnReturn
    /\ (last.op \in {"reduce", "resize"} /\ ~last.returned)
           => cache.policy = "2q" /\ cache.overflow_checks /\ last.target > cache.max_size

\* a resize that had to evict
C5_Witness ==
    /\ last.op = "resize" /\ last.returned /\ last.evicted > 0
    /\ cache.max_size = last.target /\ current_size(cache) > 0

-----------------------------------------------------------------------------
(* SHARDS.  An Option<T> is a sequence: <<>> is None and <<v>> is Some(v). *)

None    == <<>>
Some(v) == <<v>>

MODULUS == 16777216

NumT == 3    \* hash values are MODULUS / 2^e for e in 1..NumT

\* murmur3::hash128(key) % MODULUS is a fixed function of the key that the
\* model does not compute: a run draws it from a family that has distinct
\* and colliding values, so that every ratio of two thresholds is a power
\* of two and the f64 arithmetic on rates is exact.
HashSeeds == {<<1, 0>>, <<2, 0>>, <<0, 1>>}

hash(seed, key) == MODULUS \div Pow2(1 + ((seed[1] * key + seed[2]) % NumT))

\* ShardsFixedRate::new
ShardsFixedRate(seed, global_t) ==
    [kind |-> "fixed_rate", seed |-> seed, global_t |-> global_t, s_max |-> 0,
     sampled_count |-> 0, total_count |-> 0, expected_count |-> RZero,
     entries |-> <<>>, keys |-> {}]

\* ShardsFixedSize::new
ShardsFixedSize(seed, global_t, s_max) ==
    [kind |-> "fixed_size", seed |-> seed, global_t |-> global_t, s_max |-> s_max,
     sampled_count |-> 0, total_count |-> 0, expected_count |-> RZero,
     entries |-> <<>>, keys |-> {}]

\* the driver's shards field when it is None
NoShards ==
    [kind |-> "none", seed |-> <<0, 0>>, global_t |-> 0, s_max |-> 0,
     sampled_count |-> 0, total_count |-> 0, expected_count |-> RZero,
     entries |-> <<>>, keys |-> {}]

get_rate(sh) == Rat(sh.global_t, MODULUS)

sample_key(sh, key) ==
    LET t == hash(sh.seed, key)
    IN  IF t < sh.global_t THEN Some(t) ELSE None

\* (size as f64 * rate) as u64
scale(sh, sz) == FloorMul(get_rate(sh), sz)

\* (size as f64 / rate) as u64; a rate of 0 gives +inf, which the cast
\* saturates (left out: no sampled access can follow a threshold of 0)
unscale(sh, sz) == LET r == get_rate(sh) IN (sz * r.d) \div r.n

\* Entry::new
Entry(key, t) == [key |-> key, t |-> t]

\* BTreeSet<Entry>::contains under impl Ord for Entry: two entries compare
\* Equal when their t is the same, whatever their keys
entries_contains(entries, entry) == \E i \in 1..Len(entries) : entries[i].t = entry.t

\* BTreeSet<Entry>::insert: the set iterates from the largest t down
entries_insert(entries, entry) ==
    LET n == Cardinality({i \in 1..Len(entries) : entries[i].t > entry.t})
    IN  InsertAt(entries, n + 1, entry)

\* ShardsFixedRate::sample and ShardsFixedSize::sample
sample(sh, access) ==
    LET counted == [sh EXCEPT !.total_count = sh.total_count + 1]
        t       == sample_key(counted, access.key)
    IN  IF t = None THEN [shards |-> counted, sampled |-> FALSE]
        ELSE LET s2    == [counted EXCEPT !.sampled_count = counted.sampled_count + 1]
                 entry == Entry(access.key, t[1])
             IN  IF sh.kind = "fixed_size" /\ ~entries_contains(s2.entries, entry)
                 THEN [shards |-> [s2 EXCEPT !.entries = entries_insert(s2.entries, entry),
                                             !.keys = s2.keys \cup {access.key}],
                       sampled |-> TRUE]
                 ELSE [shards |-> s2, sampled |-> TRUE]

\* mutant: the entry with the smallest t is taken (pop_last for pop_first)
M_get_removal_pop_last(sh) ==
    IF sh.kind # "fixed_size" \/ Len(sh.entries) <= sh.s_max
    THEN [shards |-> sh, removal |-> None]
    ELSE LET entry   == back(sh.entries)
             lowered == [sh EXCEPT !.entries = pop_back(sh.entries),
                                   !.global_t = entry.t,
                                   !.keys = sh.keys \ {entry.key}]
         IN  [shards |-> [lowered EXCEPT !.total_count = 0],
              removal |-> Some(entry.key)]

\* mutant: the entry is read but stays in the set (first for pop_first)
M_get_removal_no_pop(sh) ==
    IF sh.kind # "fixed_size" \/ Len(sh.entries) <= sh.s_max
    THEN [shards |-> sh, removal |-> None]
    ELSE LET entry == Head(sh.entries)
         IN  [shards |-> [sh EXCEPT !.global_t = entry.t, !.total_count = 0],
              removal |-> Some(entry.key)]

\* Shards::get_removal (the default, used by fixed-rate) and
\* ShardsFixedSize::get_removal
get_removal(sh) ==
    IF sh.kind # "fixed_size" \/ Len(sh.entries) <= sh.s_max
    THEN [shards |-> sh, removal |-> None]
    ELSE LET entry   == Head(sh.entries)
             lowered == [sh EXCEPT !.entries = Tail(sh.entries),
                                   !.global_t = entry.t,
                                   !.keys = sh.keys \ {entry.key}]
         IN  [shards |-> [lowered EXCEPT
                             !.expected_count =
                                 RAdd(lowered.expected_count,
                                      RMul(Rat(lowered.total_count, 1), get_rate(lowered))),
                             !.total_count = 0],
              removal |-> Some(entry.key)]

-----------------------------------------------------------------------------
(* Histogram                                                               *)

BUCKET_SIZE == 65536

\* Bucket::new: a new bucket starts with count 1.0
Bucket(sz, shards_global_t) ==
    [size |-> sz, count |-> ROne,
     shards_global_t |-> IF shards_global_t = None THEN 0 ELSE shards_global_t[1]]

\* the shards.map(|shards| shards.get_global_t()) of Histogram::new and increment
shards_global_t_of(sh) == IF sh.kind = "none" THEN None ELSE Some(sh.global_t)

\* Histogram::new
Histogram(sh) == [infinity |-> Bucket(0, shards_global_t_of(sh)), buckets |-> <<>>]

\* Bucket::increment
Bucket_increment(b) == [b EXCEPT !.count = RAdd(b.count, ROne)]

\* Bucket::rescale
Bucket_rescale(b, global_t) ==
    IF b.shards_global_t = 0 \/ b.shards_global_t = global_t THEN b
    ELSE [b EXCEPT !.count = RMul(b.count, Rat(global_t, b.shards_global_t)),
                   !.shards_global_t = global_t]

\* (reuse_distance as f64 / BUCKET_SIZE as f64).ceil() as u64 * BUCKET_SIZE
get_rounded_reuse_distance(reuse_distance) ==
    ((reuse_distance + BUCKET_SIZE - 1) \div BUCKET_SIZE) * BUCKET_SIZE

\* Vec::binary_search_by_key over the bucket sizes, by bisection of
\* [left, right): Ok(pos) when the probe hits a bucket of the size, else
\* Err(pos) (0-based bounds as in the code; pos is returned 1-based)
RECURSIVE bisect(_, _, _, _)
bisect(buckets, sz, left, right) ==
    IF left >= right THEN [ok |-> FALSE, pos |-> left + 1]
    ELSE LET mid == left + ((right - left) \div 2)
         IN  IF buckets[mid + 1].size < sz THEN bisect(buckets, sz, mid + 1, right)
             ELSE IF buckets[mid + 1].size > sz THEN bisect(buckets, sz, left, mid)
             ELSE [ok |-> TRUE, pos |-> mid + 1]

binary_search(buckets, sz) == bisect(buckets, sz, 0, Len(buckets))

\* mutant: a new bucket is pushed at the end of the vector
M_Histogram_increment_push(h, sh, reuse_distance) ==
    IF reuse_distance = None
    THEN [h EXCEPT !.infinity = Bucket_increment(h.infinity)]
    ELSE LET unscaled == IF sh.kind # "none"
                         THEN unscale(sh, reuse_distance[1]) ELSE reuse_distance[1]
             rounded  == get_rounded_reuse_distance(unscaled)
             search   == binary_search(h.buckets, rounded)
         IN  IF search.ok
             THEN [h EXCEPT !.buckets[search.pos] = Bucket_increment(h.buckets[search.pos])]
             ELSE [h EXCEPT !.buckets =
                       Append(h.buckets, Bucket(rounded, shards_global_t_of(sh)))]

\* Histogram::increment
Histogram_increment(h, sh, reuse_distance) ==
    IF reuse_distance = None
    THEN LET inf == IF sh.kind # "none"
                    THEN Bucket_rescale(h.infinity, sh.global_t) ELSE h.infinity
         IN  [h EXCEPT !.infinity = Bucket_increment(inf)]
    ELSE LET unscaled == IF sh.kind # "none"
                         THEN unscale(sh, reuse_distance[1]) ELSE reuse_distance[1]
             rounded  == get_rounded_reuse_distance(unscaled)
             search   == binary_search(h.buckets, rounded)
         IN  IF search.ok
             THEN LET b == IF sh.kind # "none"
                           THEN Bucket_rescale(h.buckets[search.pos], sh.global_t)
                           ELSE h.buckets[search.pos]
                  IN  [h EXCEPT !.buckets[search.pos] = Bucket_increment(b)]
             ELSE [h EXCEPT !.buckets =
                       InsertAt(h.buckets, search.pos,
                                Bucket(rounded, shards_global_t_of(sh)))]

\* Histogram::rescale_buckets
rescale_buckets(h, sh) ==
    [h EXCEPT !.buckets = [i \in 1..Len(h.buckets) |->
                              Bucket_rescale(h.buckets[i], sh.global_t)]]

\* Histogram::resize
Histogram_resize(h, sz) ==
    [h EXCEPT !.buckets = SelectSeq(h.buckets, LAMBDA b : b.size <= sz)]

\* Histogram::clear
Histogram_clear(h) == [infinity |-> [h.infinity EXCEPT !.count = ROne], buckets |-> <<>>]

-----------------------------------------------------------------------------
(* Kosmo, configured with the single policy FIFO.  The global table is a   *)
(* function from the keys it holds to their GlobalObject.                  *)

GRANULARITY == 10
MIN_RECONSTRUCTED_STACK_SIZE == 1024

Max2(a, b) == IF a >= b THEN a ELSE b

CeilDiv(a, b) == (a + b - 1) \div b

\* EvictionRecord::new
EvictionRecord(sz, timestamp) == [size |-> sz, timestamp |-> timestamp]

\* FifoEvictionMap::new
FifoEvictionMap(access) == <<EvictionRecord(0, access.timestamp)>>

\* the while loop of FifoEvictionMap::insert
RECURSIVE PopWhileLe(_, _)
PopWhileLe(map, sz) ==
    IF map # <<>> /\ back(map).size <= sz THEN PopWhileLe(pop_back(map), sz) ELSE map

\* FifoEvictionMap::insert
FifoEvictionMap_insert(map, sz) ==
    IF map # <<>> /\ back(map).size > sz THEN map
    ELSE LET updated_timestamp == IF map # <<>> THEN back(map).timestamp ELSE 0
             popped == IF map # <<>> THEN PopWhileLe(pop_back(map), sz) ELSE map
             should_insert == popped = <<>> \/ back(popped).size # sz + 1
         IN  IF should_insert
             THEN Append(popped, EvictionRecord(sz + 1, updated_timestamp))
             ELSE popped

\* FifoEvictionMap::timestamp_at: walks the records from the last one back
RECURSIVE timestamp_at_from(_, _, _, _)
timestamp_at_from(map, i, sz, timestamp) ==
    IF i = 0 THEN timestamp
    ELSE IF map[i].size = sz THEN Some(map[i].timestamp)
    ELSE IF map[i].size > sz THEN timestamp
    ELSE timestamp_at_from(map, i - 1, sz, Some(map[i].timestamp))

timestamp_at(map, sz) == timestamp_at_from(map, Len(map), sz, None)

\* FifoEvictionMap::exists_at
exists_at(map, sz) == timestamp_at(map, sz) # None

\* FifoEvictionMap::reuse_distance
reuse_distance(map, object) ==
    IF map # <<>> THEN Max2(back(map).size, object.size) ELSE object.size

\* FifoEvictionMap::update that pushes a record whatever the last one is
M_FifoEvictionMap_update_always(map, access) ==
    Append(map, EvictionRecord(0, access.timestamp))

\* FifoEvictionMap::update
FifoEvictionMap_update(map, access) ==
    IF map = <<>> \/ back(map).size # 0
    THEN Append(map, EvictionRecord(0, access.timestamp))
    ELSE map

\* GlobalObject::new
GlobalObject(access) ==
    [object |-> [timestamp |-> access.timestamp, key |-> access.key, size |-> access.size],
     eviction_map |-> FifoEvictionMap(access)]

\* GlobalObject::update
GlobalObject_update(g, access) ==
    [g EXCEPT !.object.timestamp = access.timestamp,
              !.eviction_map = FifoEvictionMap_update(g.eviction_map, access)]

\* FifoEvictionMap::as_local_object
as_local_object(g, cache_size) ==
    [key |-> g.object.key, size |-> g.object.size,
     inserted_timestamp |-> timestamp_at(g.eviction_map, cache_size)]

\* the local objects FifoReconstructedStack::insert keeps (those that
\* exist), in the order BinaryHeap::pop hands them out under impl Ord for
\* FifoLocalObject: smallest inserted_timestamp first.  Objects of different
\* keys carry timestamps of different accesses, so the order is total.
RECURSIVE heap_order(_)
heap_order(objs) ==
    IF objs = {} THEN <<>>
    ELSE LET first == CHOOSE o \in objs :
                          \A p \in objs : o.inserted_timestamp[1] <= p.inserted_timestamp[1]
         IN  <<first>> \o heap_order(objs \ {first})

\* ReconstructedStack::get_evictions over FifoReconstructedStack::get_eviction
RECURSIVE get_evictions(_, _, _, _, _)
get_evictions(stack, used_size, max_size, exclude_key, keys) ==
    IF used_size <= max_size \/ stack = <<>> THEN keys
    ELSE LET o == Head(stack)
         IN  IF o.key = exclude_key
             THEN get_evictions(Tail(stack), used_size, max_size, exclude_key, keys)
             ELSE get_evictions(Tail(stack), used_size - o.size, max_size, exclude_key,
                                Append(keys, o.key))

RECURSIVE SumObjSizes(_)
SumObjSizes(objs) ==
    IF objs = {} THEN 0
    ELSE LET o == CHOOSE x \in objs : TRUE IN o.size + SumObjSizes(objs \ {o})

\* Kosmo::reconstruct_policy_stacks followed by Evictions::new: the keys
\* the reconstructed FIFO stack of the given size evicts, in eviction order
reconstruct_policy_stacks(sz, global_table, exclude_key) ==
    LET locals == {as_local_object(global_table[k], sz) : k \in DOMAIN global_table}
        exist  == {o \in locals : o.inserted_timestamp # None}
    IN  get_evictions(heap_order(exist), SumObjSizes(exist), sz, exclude_key, <<>>)

\* Kosmo::evict_with_key
evict_with_key(global_table, key, cache_size) ==
    IF key \in DOMAIN global_table
    THEN [global_table EXCEPT ![key].eviction_map =
              FifoEvictionMap_insert(global_table[key].eviction_map, cache_size)]
    ELSE global_table

\* the while-let loop of Kosmo::perform_evictions for one cache size:
\* Evictions::get_key pops the keys from the end of the vector
RECURSIVE evict_keys(_, _, _)
evict_keys(global_table, keys, cache_size) ==
    IF keys = <<>> THEN global_table
    ELSE evict_keys(evict_with_key(global_table, back(keys), cache_size),
                    pop_back(keys), cache_size)

\* the for loop of Kosmo::perform_evictions, from the largest cache size
\* down; every stack is reconstructed from the table as it was before
RECURSIVE evict_sizes(_, _, _, _, _)
evict_sizes(global_table, before, index, step_size, exclude_key) ==
    IF index = 0 THEN global_table
    ELSE LET cache_size == index * step_size
             keys == reconstruct_policy_stacks(cache_size, before, exclude_key)
         IN  evict_sizes(evict_keys(global_table, keys, cache_size),
                         before, index - 1, step_size, exclude_key)

\* Kosmo::perform_evictions
perform_evictions(k, access, simulate_size) ==
    LET step_size == Max2(Max2(MIN_RECONSTRUCTED_STACK_SIZE, access.size),
                          CeilDiv(simulate_size, GRANULARITY))
    IN  IF step_size > simulate_size THEN k
        ELSE [k EXCEPT !.global_table =
                  evict_sizes(k.global_table, k.global_table,
                              CeilDiv(simulate_size, step_size), step_size, access.key)]

\* Kosmo::update_histograms
update_histograms(k, access) ==
    IF access.key \in DOMAIN k.global_table
    THEN LET g  == k.global_table[access.key]
             rd == Some(reuse_distance(g.eviction_map, g.object))
         IN  [k |-> [k EXCEPT !.global_table[access.key] = GlobalObject_update(g, access),
                              !.histogram = Histogram_increment(k.histogram, k.shards, rd)],
              max_reuse_distance |-> rd]
    ELSE [k |-> [k EXCEPT !.histogram = Histogram_increment(k.histogram, k.shards, None)],
          max_reuse_distance |-> None]

\* Kosmo::process
Kosmo_process(k, access) ==
    LET u == update_histograms(k, access)
        inserted ==
            IF u.max_reuse_distance = None
            THEN [u.k EXCEPT !.total_size = u.k.total_size + access.size,
                             !.global_table = MapInsert(u.k.global_table, access.key,
                                                        GlobalObject(access))]
            ELSE u.k
        simulate_size == IF u.max_reuse_distance = None THEN inserted.total_size
                         ELSE u.max_reuse_distance[1]
    IN  perform_evictions(inserted, access, simulate_size)

\* Kosmo::remove
Kosmo_remove(k, key) == [k EXCEPT !.global_table = MapRemove(k.global_table, key)]

-----------------------------------------------------------------------------
(* MiniSim: NUM_CACHES caches of one policy, of sizes i * (max / NUM_CACHES) *)

NUM_CACHES == 100

\* fn get_caches
get_caches(policy, max_cache_size, num_caches, sh) ==
    [i \in 1..num_caches |->
        LET cache_size == i * (max_cache_size \div num_caches)
        IN  NewCache(policy[1],
                     IF sh.kind # "none" THEN scale(sh, cache_size) ELSE cache_size,
                     policy[2])]

\* mutant: the caches keep their unscaled sizes
M_Minisimulations_rescale_unscaled(m, shards_new_global_t) ==
    LET ratio      == Rat(shards_new_global_t, m.shards_global_t)
        num_caches == Len(m.caches)
    IN  [m EXCEPT !.caches =
            [index \in 1..num_caches |->
                rescale(resize(m.caches[index],
                               index * (m.max_cache_size \div num_caches)), ratio)]]

\* Minisimulations::rescale
Minisimulations_rescale(m, shards_new_global_t) ==
    LET ratio       == Rat(shards_new_global_t, m.shards_global_t)
        num_caches  == Len(m.caches)
        shards_rate == IF m.shards.kind # "none" THEN get_rate(m.shards) ELSE ROne
    IN  [m EXCEPT !.caches =
            [index \in 1..num_caches |->
                LET cache_size == FloorMul(shards_rate,
                                           index * (m.max_cache_size \div num_caches))
                IN  rescale(resize(m.caches[index], cache_size), ratio)]]

\* mutant: the caches handle the access first and are rescaled after it
M_Minisimulations_process_rescale_after(m, access) ==
    LET shards_global_t == IF m.shards.kind # "none" THEN m.shards.global_t ELSE 0
        handled == [m EXCEPT !.caches =
                       [i \in 1..Len(m.caches) |->
                           handle_self_populating(m.caches[i], access).c]]
    IN  IF shards_global_t # m.shards_global_t
        THEN [Minisimulations_rescale(handled, shards_global_t)
                 EXCEPT !.shards_global_t = shards_global_t]
        ELSE handled

\* Minisimulations::process
Minisimulations_process(m, access) ==
    LET shards_global_t == IF m.shards.kind # "none" THEN m.shards.global_t ELSE 0
        rescaled == IF shards_global_t # m.shards_global_t
                    THEN [Minisimulations_rescale(m, shards_global_t)
                             EXCEPT !.shards_global_t = shards_global_t]
                    ELSE m
    IN  [rescaled EXCEPT !.caches =
            [i \in 1..Len(rescaled.caches) |->
                handle_self_populating(rescaled.caches[i], access).c]]

\* mutant: the key is deleted from the first cache only
M_Minisimulations_remove_first(m, key) ==
    [m EXCEPT !.caches = [i \in 1..Len(m.caches) |->
                             IF i = 1 THEN Cache_del(m.caches[i], key) ELSE m.caches[i]]]

\* Minisimulations::remove
Minisimulations_remove(m, key) ==
    [m EXCEPT !.caches = [i \in 1..Len(m.caches) |-> Cache_del(m.caches[i], key)]]

-----------------------------------------------------------------------------
(* The two drivers behind the Algorithm trait.  One record shape serves    *)
(* both: Kosmo uses global_table, total_size and histogram; MiniSim uses   *)
(* caches, max_cache_size and shards_global_t.                             *)

\* Kosmo::new with policies = [Fifo]
Kosmo(sh) ==
    [kind |-> "kosmo", shards |-> sh,
     global_table |-> <<>>, total_size |-> 0, histogram |-> Histogram(sh),
     caches |-> <<>>, max_cache_size |-> 0, shards_global_t |-> 0]

\* Minisimulations::new
Minisimulations(policy, max_cache_size, sh) ==
    [kind |-> "minisim", shards |-> sh,
     global_table |-> <<>>, total_size |-> 0, histogram |-> Histogram(NoShards),
     caches |-> get_caches(policy, max_cache_size, NUM_CACHES, sh),
     max_cache_size |-> max_cache_size,
     shards_global_t |-> IF sh.kind # "none" THEN sh.global_t ELSE 0]

\* mutant: the command is not looked at
M_verify_access_any_command(access) == access.size > 0

\* Algorithm::verify_access
verify_access(access) == is_valid_self_populating(access)

\* Algorithm::process
process(a, access) ==
    IF a.kind = "kosmo" THEN Kosmo_process(a, access) ELSE Minisimulations_process(a, access)

\* Algorithm::remove
remove(a, key) ==
    IF a.kind = "kosmo" THEN Kosmo_remove(a, key) ELSE Minisimulations_remove(a, key)

-----------------------------------------------------------------------------
(* SpecAlg: Algorithm::handle, one access after another.  pc is the        *)
(* position inside handle: "idle" (between calls), "get_removal" (sample   *)
(* returned true), "remove" (get_removal returned a key), "process"        *)
(* (verify_shards returned true).                                          *)

MaxHandles   == 4      \* handle calls per run
MaxSMax      == 2      \* s_max of fixed-size SHARDS is 1..MaxSMax
SmallSize    == 600    \* the two sizes of valid accesses
LargeSize    == 1100
MaxCacheSize == 4000   \* max_cache_size of MiniSim

ShardsConfigs ==
    {NoShards}
    \cup {ShardsFixedRate(seed, MODULUS \div 2) : seed \in HashSeeds}
    \cup {ShardsFixedSize(seed, MODULUS, s_max) : seed \in HashSeeds, s_max \in 1..MaxSMax}

AlgConfigs ==
    {Kosmo(sh) : sh \in ShardsConfigs}
    \cup {Minisimulations(<<"fifo", NoCfg>>, MaxCacheSize, sh) : sh \in ShardsConfigs}

\* the accesses of a trace: valid ones of two sizes, and the two kinds that
\* are not valid for MRC (a Set, and a Get of size 0)
Accesses(ts) ==
    {Access(ts, "Get", k, sz) : k \in Keys, sz \in {0, SmallSize, LargeSize}}
    \cup {Access(ts, "Set", k, SmallSize) : k \in Keys}

NoAccess == [access |-> Access(0, "Get", 0, 0), outcome |-> "none", removal |-> None,
             len_before |-> 0, held |-> FALSE, removed |-> FALSE]

AlgInit ==
    /\ alg \in AlgConfigs
    /\ pc = "idle"
    /\ cur = NoAccess

\* Algorithm::handle up to the return of shards.sample
Handle ==
    /\ pc = "idle"
    /\ steps < MaxHandles
    /\ steps' = steps + 1
    /\ \E access \in Accesses(steps + 1) :
          LET started == [NoAccess EXCEPT !.access = access]
          IN  IF ~verify_access(access)
              THEN /\ alg' = alg
                   /\ pc' = "idle"
                   /\ cur' = [started EXCEPT !.outcome = "invalid"]
              ELSE IF alg.shards.kind = "none"
              THEN /\ alg' = alg
                   /\ pc' = "process"
                   /\ cur' = [started EXCEPT !.outcome = "sampled"]
              ELSE LET r == sample(alg.shards, access)
                   IN  /\ alg' = [alg EXCEPT !.shards = r.shards]
                       /\ pc' = IF r.sampled THEN "get_removal" ELSE "idle"
                       /\ cur' = [started EXCEPT
                                     !.outcome = IF r.sampled THEN "sampled" ELSE "unsampled"]

\* verify_shards: shards.get_removal()
GetRemoval ==
    /\ pc = "get_removal"
    /\ LET r == get_removal(alg.shards)
       IN  /\ alg' = [alg EXCEPT !.shards = r.shards]
           /\ cur' = [cur EXCEPT !.removal = r.removal,
                                 !.len_before = Len(alg.shards.entries)]
           /\ pc' = IF r.removal # None THEN "remove" ELSE "process"
    /\ UNCHANGED steps

\* some structure of the driver holds the key
Holds(a, key) ==
    \/ key \in DOMAIN a.global_table
    \/ \E i \in 1..Len(a.caches) : has(a.caches[i], key)

\* verify_shards: self.remove(key)
Remove ==
    /\ pc = "remove"
    /\ alg' = remove(alg, cur.removal[1])
    /\ cur' = [cur EXCEPT !.held = Holds(alg, cur.removal[1]), !.removed = TRUE]
    /\ pc' = "process"
    /\ UNCHANGED steps

\* handle: self.process(access)
Process ==
    /\ pc = "process"
    /\ alg' = process(alg, cur.access)
    /\ cur' = [cur EXCEPT !.outcome = "processed"]
    /\ pc' = "idle"
    /\ UNCHANGED steps

InitAlg ==
    /\ AlgInit
    /\ steps = 0
    /\ cache = NewCache("fifo", 0, NoCfg) /\ last = NoCall /\ after = NoAfter
    /\ hist = HistIdle /\ hlast = NoCall
    /\ RestIdle

NextAlg ==
    \/ Handle /\ UNCHANGED <<cacheVars, histVars, restVars>>
    \/ GetRemoval /\ UNCHANGED <<cacheVars, histVars, restVars>>
    \/ Remove /\ UNCHANGED <<cacheVars, histVars, restVars>>
    \/ Process /\ UNCHANGED <<cacheVars, histVars, restVars>>

SpecAlg == InitAlg /\ [][NextAlg]_vars

-----------------------------------------------------------------------------
(* Properties of Algorithm::handle and SHARDS (checked under SpecAlg)      *)

\* valid for MRC: command = Get and size > 0
ValidForMRC(access) == access.command = "Get" /\ access.size > 0

\* SHARDS is configured and the key's hash is not below the threshold
NotSampled(a, access) ==
    a.shards.kind # "none" /\ hash(a.shards.seed, access.key) >= a.shards.global_t

\* C6: handle on an access that is not valid for MRC changes no state at
\* all, the SHARDS counters included; on a valid access that SHARDS does not
\* sample only total_count changes (by one), and the Kosmo table and
\* histogram or the MiniSim caches stay as they were.
C6_UnprocessedFrame ==
    [][ (pc = "idle" /\ steps' = steps + 1)
          => /\ ~ValidForMRC(cur'.access) => (alg' = alg /\ pc' = "idle")
             /\ (ValidForMRC(cur'.access) /\ NotSampled(alg, cur'.access))
                  => /\ alg' = [alg EXCEPT !.shards.total_count = alg.shards.total_count + 1]
                     /\ pc' = "idle"
      ]_vars

\* an access was not sampled while the driver held objects
C6_Witness ==
    /\ pc = "idle" /\ cur.outcome = "unsampled"
    /\ alg.shards.total_count > alg.shards.sampled_count
    /\ \E k \in Keys : Holds(alg, k)

\* C7: when the sampled set of fixed-size SHARDS holds more than s_max
\* entries, get_removal takes out the entry with the largest t, sets
\* global_t to that t (which lowers it), resets total_count to 0 and returns
\* the entry's key.
C7_RemovalOfLargest ==
    [][ (pc = "get_removal" /\ alg.shards.kind = "fixed_size"
            /\ Len(alg.shards.entries) > alg.shards.s_max)
          => \E i \in 1..Len(alg.shards.entries) :
                LET e == alg.shards.entries[i]
                IN  /\ \A j \in 1..Len(alg.shards.entries) : alg.shards.entries[j].t <= e.t
                    /\ alg'.shards.entries = RemoveAt(alg.shards.entries, i)
                    /\ alg'.shards.global_t = e.t
                    /\ e.t < alg.shards.global_t
                    /\ alg'.shards.total_count = 0
                    /\ cur'.removal = Some(e.key)
      ]_vars

\* a removal out of a set of three entries
C7_Witness ==
    /\ pc = "remove" /\ cur.removal # None
    /\ cur.len_before = 3 /\ Len(alg.shards.entries) = 2
    /\ alg.shards.total_count = 0

\* C8: get_removal of fixed-rate SHARDS returns None in every state;
\* get_removal of fixed-size SHARDS returns a key only when the set exceeded
\* s_max after the sample call; called after every sampled access, a second
\* call right after it returns None and the set holds at most s_max entries
\* afterwards.
C8_RemovalDrains ==
    /\ alg.shards.kind # "fixed_size" => get_removal(alg.shards).removal = None
    /\ pc \in {"remove", "process"}
          => /\ cur.removal # None
                  => alg.shards.kind = "fixed_size" /\ cur.len_before > alg.shards.s_max
             /\ get_removal(alg.shards).removal = None
    /\ pc # "get_removal" => Len(alg.shards.entries) <= alg.shards.s_max

\* a key was returned and the set is back at s_max entries
C8_Witness ==
    /\ pc = "remove" /\ cur.removal # None
    /\ alg.shards.s_max = 2 /\ cur.len_before = alg.shards.s_max + 1
    /\ Len(alg.shards.entries) = alg.shards.s_max

\* C9: when get_removal reports a key for a sampled access, remove(key) has
\* been applied to every structure of the driver (the Kosmo global_table;
\* each of the 100 MiniSim caches) by the time the access is processed.
C9_RemoveBeforeProcess ==
    (pc = "process" /\ cur.removal # None)
        => /\ cur.removed /\ cur.outcome = "sampled"
           /\ alg.kind = "kosmo" => cur.removal[1] \notin DOMAIN alg.global_table
           /\ alg.kind = "minisim"
                 => /\ Len(alg.caches) = NUM_CACHES
                    /\ \A i \in 1..NUM_CACHES : ~has(alg.caches[i], cur.removal[1])

\* MiniSim is about to process an access after a key that its caches held
\* was removed
C9_Witness ==
    /\ pc = "process" /\ cur.removal # None /\ cur.held
    /\ alg.kind = "minisim"
    /\ cur.removal[1] # cur.access.key

-----------------------------------------------------------------------------
(* SpecHist: one Histogram, called as Kosmo calls it (increment, resize,   *)
(* rescale_buckets, clear), with or without SHARDS; with SHARDS the        *)
(* threshold global_t may be lowered between two calls.                    *)

MaxHistSteps == 5    \* Histogram calls per run

\* reuse distances on both sides of the bucket boundaries
ReuseDistances ==
    {0, 1, BUCKET_SIZE - 1, BUCKET_SIZE, BUCKET_SIZE + 1, 2 * BUCKET_SIZE + 1}

ResizeSizes == {0, BUCKET_SIZE, 3 * BUCKET_SIZE}

\* only_increments: every call since Histogram::new was an increment
NoHistCall == [op |-> "new", arg |-> None, ok |-> FALSE, pos |-> 0,
               only_increments |-> TRUE]

HistInit ==
    /\ \E sh \in {NoShards, ShardsFixedSize(<<1, 0>>, MODULUS, 1)} :
          hist = [h |-> Histogram(sh), shards |-> sh]
    /\ hlast = NoHistCall

HistCall(h2, sh2, call) ==
    /\ steps < MaxHistSteps
    /\ steps' = steps + 1
    /\ hist' = [h |-> h2, shards |-> sh2]
    /\ hlast' = [op |-> call.op, arg |-> call.arg, ok |-> call.ok, pos |-> call.pos,
                 only_increments |-> hlast.only_increments /\ call.op = "increment"]

\* the place increment's search gives for a reuse distance
SearchOf(rd) ==
    binary_search(hist.h.buckets,
                  get_rounded_reuse_distance(
                      IF hist.shards.kind # "none" THEN unscale(hist.shards, rd) ELSE rd))

HistIncrement ==
    \/ HistCall(Histogram_increment(hist.h, hist.shards, None), hist.shards,
                [NoHistCall EXCEPT !.op = "increment"])
    \/ \E rd \in ReuseDistances :
          HistCall(Histogram_increment(hist.h, hist.shards, Some(rd)), hist.shards,
                   [op |-> "increment", arg |-> Some(rd),
                    ok |-> SearchOf(rd).ok, pos |-> SearchOf(rd).pos])

HistResize ==
    \E sz \in ResizeSizes :
        HistCall(Histogram_resize(hist.h, sz), hist.shards,
                 [NoHistCall EXCEPT !.op = "resize", !.arg = Some(sz)])

HistRescaleBuckets ==
    /\ hist.shards.kind # "none"
    /\ HistCall(rescale_buckets(hist.h, hist.shards), hist.shards,
                [NoHistCall EXCEPT !.op = "rescale_buckets"])

HistClear ==
    HistCall(Histogram_clear(hist.h), hist.shards, [NoHistCall EXCEPT !.op = "clear"])

\* fixed-size SHARDS evicted an entry: global_t is now that entry's t
ShardsLowered ==
    /\ hist.shards.kind # "none"
    /\ \E e \in 1..NumT :
          /\ MODULUS \div Pow2(e) < hist.shards.global_t
          /\ HistCall(hist.h, [hist.shards EXCEPT !.global_t = MODULUS \div Pow2(e)],
                      [NoHistCall EXCEPT !.op = "lowered"])

InitHist ==
    /\ HistInit
    /\ steps = 0
    /\ cache = NewCache("fifo", 0, NoCfg) /\ last = NoCall /\ after = NoAfter
    /\ alg = AlgIdle /\ pc = "idle" /\ cur = NoCall
    /\ RestIdle

NextHist ==
    \/ HistIncrement /\ UNCHANGED <<cacheVars, algVars, restVars>>
    \/ HistResize /\ UNCHANGED <<cacheVars, algVars, restVars>>
    \/ HistRescaleBuckets /\ UNCHANGED <<cacheVars, algVars, restVars>>
    \/ HistClear /\ UNCHANGED <<cacheVars, algVars, restVars>>
    \/ ShardsLowered /\ UNCHANGED <<cacheVars, algVars, restVars>>

SpecHist == InitHist /\ [][NextHist]_vars

\* C10: after any increment calls (with or without SHARDS) and resize
\* calls, the finite bucket sizes are multiples of BUCKET_SIZE = 65536,
\* pairwise distinct and stored in strictly increasing order.
C10_BucketsOrdered ==
    LET b == hist.h.buckets
    IN  /\ BUCKET_SIZE = 65536
        /\ \A i \in 1..Len(b) : b[i].size % BUCKET_SIZE = 0
        /\ \A i, j \in 1..Len(b) : i < j => b[i].size < b[j].size

\* with SHARDS, an increment has put a new bucket between two others
C10_Witness ==
    /\ hlast.op = "increment" /\ ~hlast.ok /\ hlast.pos = 2
    /\ Len(hist.h.buckets) = 3
    /\ hist.shards.kind # "none"

-----------------------------------------------------------------------------
(* Curve: a miss ratio curve, a BTreeMap from cache size to miss ratio    *)
(* (a function from the set of its sizes to exact fractions)              *)

\* Curve::new
Curve_new == <<>>

\* Curve::add: BTreeMap::insert replaces the point of the same size
Curve_add(c, sz, ratio) == MapInsert(c, sz, ratio)

\* BTreeMap::last_key_value, as an Option of the key
last_key(c) ==
    IF DOMAIN c = {} THEN None
    ELSE Some(CHOOSE k \in DOMAIN c : \A x \in DOMAIN c : x <= k)

\* Curve::get_max_size
get_max_size(c) == IF last_key(c) = None THEN 0 ELSE last_key(c)[1]

\* points.upper_bound(Bound::Included(&size)).prev(): the cursor stands in
\* the gap after the greatest key <= size, and prev() yields that key
upper_bound_prev(c, sz) ==
    LET below == {k \in DOMAIN c : k <= sz}
    IN  IF below = {} THEN None
        ELSE Some(CHOOSE k \in below : \A x \in below : x <= k)

\* points.lower_bound(Bound::Included(&size)).next(): the cursor stands in
\* the gap before the smallest key >= size, and next() yields that key
lower_bound_next(c, sz) ==
    LET above == {k \in DOMAIN c : k >= sz}
    IN  IF above = {} THEN None
        ELSE Some(CHOOSE k \in above : \A x \in above : k <= x)

\* get_miss_ratio with the point after the size taken whenever there is one
M_get_miss_ratio_next(c, sz) ==
    LET next == lower_bound_next(c, sz)
        prev == upper_bound_prev(c, sz)
    IN  IF next # None THEN c[next[1]]
        ELSE IF prev # None THEN c[prev[1]] ELSE ROne

\* Curve::get_miss_ratio
get_miss_ratio(c, sz) ==
    LET prev == upper_bound_prev(c, sz)
        next == lower_bound_next(c, sz)
    IN  CASE prev # None /\ next # None ->
                IF sz = next[1] THEN c[next[1]] ELSE c[prev[1]]
          [] prev = None /\ next # None ->
                IF sz = next[1] THEN c[next[1]] ELSE ROne
          [] prev # None /\ next = None -> c[prev[1]]
          [] OTHER ->
                IF last_key(c) = None THEN ROne ELSE c[last_key(c)[1]]

RAbs(x) == [n |-> Abs(x.n), d |-> x.d]

\* the sizes of (from..to).step_by(step), in order, for step > 0: from,
\* from + step, ... while below to
step_by(from, to, step) ==
    [j \in 1..CeilDiv(to - from, step) |-> from + (j - 1) * step]

\* the fold of Curve::mae over sizes[lo..hi]: the sum of the absolute
\* differences of the two miss ratios (summed by halves, the sum of exact
\* fractions not depending on the order)
RECURSIVE fold_error(_, _, _, _, _)
fold_error(a, b, sizes, lo, hi) ==
    IF lo > hi THEN RZero
    ELSE IF lo = hi
    THEN RAbs(RSub(get_miss_ratio(a, sizes[lo]), get_miss_ratio(b, sizes[lo])))
    ELSE LET mid == (lo + hi) \div 2
         IN  RAdd(fold_error(a, b, sizes, lo, mid), fold_error(a, b, sizes, mid + 1, hi))

\* Curve::mae: the sizes it samples and its result; Iterator::step_by
\* panics on a step of 0
mae(a, b) ==
    LET max_size   == Max2(get_max_size(a), get_max_size(b))
        num_points == 100
        step_size  == max_size \div num_points
        sizes      == step_by(step_size, max_size + step_size, step_size)
    IN  IF step_size = 0
        THEN [status |-> "panic", max_size |-> max_size, sizes |-> <<>>, value |-> RZero]
        ELSE [status |-> "ok", max_size |-> max_size, sizes |-> sizes,
              value |-> RDiv(fold_error(a, b, sizes, 1, Len(sizes)), Rat(num_points, 1))]

-----------------------------------------------------------------------------
(* SpecCurve: two curves built with add, queried and compared             *)

MaxCurvePoints == 3     \* points in the two curves together

CurveSizes  == {1, 100, 150}
CurveRatios == {RZero, Half}
QuerySizes  == {0, 1, 2, 99, 100, 101, 149, 150, 151}

NoCurveCall == [op |-> "new", size |-> 0, status |-> "ok", value |-> RZero,
                max_size |-> 0, sizes |-> <<>>]

CurveInit == curves = <<Curve_new, Curve_new>> /\ cres = NoCurveCall

\* curve.add(size, ratio) on either curve
CurveAdd ==
    \E i \in 1..2, sz \in CurveSizes, r \in CurveRatios :
        /\ Cardinality(DOMAIN Curve_add(curves[i], sz, r))
             + Cardinality(DOMAIN curves[3 - i]) <= MaxCurvePoints
        /\ curves' = [curves EXCEPT ![i] = Curve_add(curves[i], sz, r)]
        /\ cres' = [NoCurveCall EXCEPT !.op = "add", !.size = sz]

\* self.get_miss_ratio(size) on the first curve
CurveGetMissRatio ==
    \E sz \in QuerySizes :
        /\ cres' = [NoCurveCall EXCEPT !.op = "get_miss_ratio", !.size = sz,
                                       !.value = get_miss_ratio(curves[1], sz)]
        /\ UNCHANGED curves

\* self.mae(&curve)
CurveMae ==
    LET m == mae(curves[1], curves[2])
    IN  /\ cres' = [NoCurveCall EXCEPT !.op = "mae", !.status = m.status,
                                       !.value = m.value, !.max_size = m.max_size,
                                       !.sizes = m.sizes]
        /\ UNCHANGED curves

InitCurve ==
    /\ CurveInit
    /\ steps = 0
    /\ cache = NewCache("fifo", 0, NoCfg) /\ last = NoCall /\ after = NoAfter
    /\ alg = AlgIdle /\ pc = "idle" /\ cur = NoCall
    /\ hist = HistIdle /\ hlast = NoCall
    /\ MapIdle /\ ParIdle /\ RunIdle /\ StackIdle

NextCurve ==
    \/ CurveAdd /\ UNCHANGED <<cacheVars, algVars, histVars, steps, mapVars, par, run, stk>>
    \/ CurveGetMissRatio /\ UNCHANGED <<cacheVars, algVars, histVars, steps, mapVars, par, run, stk>>
    \/ CurveMae /\ UNCHANGED <<cacheVars, algVars, histVars, steps, mapVars, par, run, stk>>

SpecCurve == InitCurve /\ [][NextCurve]_vars

\* C11: get_miss_ratio(s) returns the miss ratio of the point with the
\* greatest size <= s, and 1.0 when no point has a size <= s (an empty curve
\* included), for every curve built with add and every s.
C11_MissRatioLookup ==
    cres.op = "get_miss_ratio" =>
        LET below == {k \in DOMAIN curves[1] : k <= cres.size}
        IN  cres.value = IF below = {} THEN ROne
                         ELSE curves[1][CHOOSE k \in below : \A x \in below : x <= k]

\* a lookup between two points whose miss ratios differ
C11_Witness ==
    /\ cres.op = "get_miss_ratio"
    /\ \E lo, hi \in DOMAIN curves[1] :
          /\ lo < cres.size /\ cres.size < hi
          /\ curves[1][lo] # curves[1][hi]
          /\ cres.value # ROne

\* the mean of the absolute differences of the two curves at the sizes
\* step, 2 * step, ..., n * step
MeanAbsDiff(a, b, step, n) ==
    RDiv(fold_error(a, b, [j \in 1..n |-> j * step], 1, n), Rat(n, 1))

\* C13: mae evaluates both curves at exactly 100 equally spaced sizes
\* (step, 2 * step, ..., 100 * step with step = floor(max_size / 100),
\* max_size the larger of the two curves' maximum sizes) and returns the mean
\* of those 100 absolute differences, for every max_size >= 100.
C13_MaeHundredSamples ==
    (cres.op = "mae" /\ Max2(get_max_size(curves[1]), get_max_size(curves[2])) >= 100) =>
        LET max_size == Max2(get_max_size(curves[1]), get_max_size(curves[2]))
            step     == max_size \div 100
        IN  /\ cres.status = "ok"
            /\ cres.sizes = [j \in 1..100 |-> j * step]
            /\ cres.value = MeanAbsDiff(curves[1], curves[2], step, 100)

\* what mae does for every max_size >= 100: it samples step, 2 * step, ...
\* up to the first multiple of step that reaches max_size, which are 100
\* sizes only when max_size is a multiple of 100, and divides the sum by 100
C13_MaeSamples ==
    (cres.op = "mae" /\ cres.max_size >= 100) =>
        LET step == cres.max_size \div 100
            n    == CeilDiv(cres.max_size, step)
        IN  /\ cres.status = "ok"
            /\ cres.sizes = [j \in 1..n |-> j * step]
            /\ (cres.max_size % 100 = 0 <=> n = 100)
            /\ cres.value = RMul(MeanAbsDiff(curves[1], curves[2], step, n), Rat(n, 100))

\* with a maximum size below 100 the step is 0 and step_by panics
C13_MaePanics ==
    (cres.op = "mae" /\ cres.max_size < 100) => cres.status = "panic"

-----------------------------------------------------------------------------
(* Curves from histograms                                                  *)

\* Shards::get_expected_count: (rate * total_count) as u64 for fixed-rate,
\* (expected_count + total_count * rate) as u64 for fixed-size
get_expected_count(sh) ==
    IF sh.kind = "fixed_size"
    THEN FloorMul(RAdd(sh.expected_count, RMul(Rat(sh.total_count, 1), get_rate(sh))), 1)
    ELSE FloorMul(get_rate(sh), sh.total_count)

\* Shards::get_correction: expected - sampled, overridden to 0 by fixed-size
get_correction(sh) ==
    IF sh.kind = "fixed_size" THEN 0 ELSE get_expected_count(sh) - sh.sampled_count

RECURSIVE SumCounts(_)
SumCounts(buckets) ==
    IF buckets = <<>> THEN RZero ELSE RAdd(Head(buckets).count, SumCounts(Tail(buckets)))

\* Histogram::get_total
get_total(h) == RAdd(h.infinity.count, SumCounts(h.buckets))

\* Histogram::get_corrected_total
get_corrected_total(h, sh) == RAdd(get_total(h), Rat(get_correction(sh), 1))

\* 1.0 - current / total in f64.  A total of 0 gives NaN (0 / 0, written
\* with n = 0 and d = 0) or 1.0 - inf = -inf (written with n = -1 and d = 0).
NaN    == [n |-> 0, d |-> 0]
NegInf == [n |-> -1, d |-> 0]
point_ratio(current, total) ==
    IF total.n = 0 THEN (IF current.n = 0 THEN NaN ELSE NegInf)
    ELSE RSub(ROne, Rat(current.n * total.d * (IF total.n < 0 THEN -1 ELSE 1),
                        current.d * Abs(total.n)))

\* Curve::from_histogram: the loop over the finite buckets from index i on
RECURSIVE from_histogram_loop(_, _, _, _, _)
from_histogram_loop(buckets, i, total, current, points) ==
    IF i > Len(buckets) THEN points
    ELSE LET cur1 == RAdd(current, buckets[i].count)
         IN  from_histogram_loop(buckets, i + 1, total, cur1,
                                 MapInsert(points, buckets[i].size, point_ratio(cur1, total)))

\* Curve::from_histogram
from_histogram(h) == from_histogram_loop(h.buckets, 1, get_total(h), RZero, <<>>)

\* from_corrected_histogram with the hit ratio in place of the miss ratio
\* and no correction
M_from_corrected_histogram_reversed(h, sh) ==
    LET c == from_histogram_loop(h.buckets, 1, get_total(h), RZero, <<>>)
    IN  [sz \in DOMAIN c |-> RSub(ROne, c[sz])]

\* Curve::from_corrected_histogram: the loop over the finite buckets
RECURSIVE from_corrected_histogram_loop(_, _, _, _, _, _)
from_corrected_histogram_loop(buckets, i, total, current, correction, points) ==
    IF i > Len(buckets) THEN points
    ELSE LET cur1 == RAdd(current, buckets[i].count)
             folds   == RLt(RZero, correction) \/ RLt(RAbs(correction), cur1)
             absorbs == ~folds /\ RLt(correction, RZero)
             cur2  == IF folds THEN RAdd(cur1, correction)
                      ELSE IF absorbs THEN RZero ELSE cur1
             corr2 == IF folds THEN RZero
                      ELSE IF absorbs THEN RAdd(correction, cur1) ELSE correction
         IN  from_corrected_histogram_loop(buckets, i + 1, total, cur2, corr2,
                 MapInsert(points, buckets[i].size, point_ratio(cur2, total)))

\* Curve::from_corrected_histogram
from_corrected_histogram(h, sh) ==
    from_corrected_histogram_loop(h.buckets, 1, get_corrected_total(h, sh), RZero,
                                  Rat(get_correction(sh), 1), <<>>)

\* Kosmo::policy_curve (which Kosmo::curve calls for its first policy): with
\* SHARDS the buckets are rescaled and the corrected curve is built
policy_curve(k) ==
    IF k.shards.kind = "none" THEN from_histogram(k.histogram)
    ELSE from_corrected_histogram(rescale_buckets(k.histogram, k.shards), k.shards)

\* x <= y on f64 values: false when either is NaN
F64Le(x, y) ==
    IF x = NaN \/ y = NaN THEN FALSE
    ELSE IF x = NegInf THEN TRUE
    ELSE IF y = NegInf THEN FALSE
    ELSE RLe(x, y)

\* the sizes at, just below and just above the points of a curve, and 0
ProbeSizes(c) ==
    {0} \cup DOMAIN c \cup {sz - 1 : sz \in DOMAIN c} \cup {sz + 1 : sz \in DOMAIN c}

\* get_miss_ratio is monotonically non-increasing in the size
NonIncreasing(c) ==
    \A s1, s2 \in ProbeSizes(c) :
        s1 <= s2 => F64Le(get_miss_ratio(c, s2), get_miss_ratio(c, s1))

-----------------------------------------------------------------------------
(* SpecMrc: the run of mrc.rs for Kosmo: the accesses of a trace are       *)
(* handled one after another, then the curve is taken                      *)

MaxTrace   == 6         \* accesses in the trace
TraceSmall == 30000     \* the two sizes of the accesses of the trace
TraceLarge == 50000

\* Kosmo::verify_shards: the driver after it, and what it returned
verify_shards(a, access) ==
    IF a.shards.kind = "none" THEN [alg |-> a, ok |-> TRUE]
    ELSE LET r  == sample(a.shards, access)
             a1 == [a EXCEPT !.shards = r.shards]
         IN  IF ~r.sampled THEN [alg |-> a1, ok |-> FALSE]
             ELSE LET g  == get_removal(a1.shards)
                      a2 == [a1 EXCEPT !.shards = g.shards]
                  IN  [alg |-> IF g.removal # None THEN remove(a2, g.removal[1]) ELSE a2,
                       ok |-> TRUE]

\* Algorithm::handle, from call to return
handle(a, access) ==
    IF ~verify_access(access) THEN a
    ELSE LET v == verify_shards(a, access)
         IN  IF v.ok THEN process(v.alg, access) ELSE v.alg

TraceAccesses(ts) ==
    {Access(ts, "Get", k, sz) : k \in Keys, sz \in {TraceSmall, TraceLarge}}

MrcInit ==
    /\ alg \in {Kosmo(sh) : sh \in ShardsConfigs}
    /\ pc = "idle"
    /\ cur = NoAccess
    /\ curves = <<>>

\* the next access of the trace: algorithm.handle(&access)
MrcHandle ==
    /\ pc = "idle"
    /\ steps < MaxTrace
    /\ steps' = steps + 1
    /\ \E access \in TraceAccesses(steps + 1) :
          /\ alg' = handle(alg, access)
          /\ cur' = [NoAccess EXCEPT !.access = access]
    /\ UNCHANGED <<pc, curves>>

\* the end of the trace: algorithm.curve(), which rescales the buckets of
\* the histogram when SHARDS is configured
MrcCurve ==
    /\ pc = "idle"
    /\ pc' = "done"
    /\ curves' = <<policy_curve(alg)>>
    /\ alg' = IF alg.shards.kind = "none" THEN alg
              ELSE [alg EXCEPT !.histogram = rescale_buckets(alg.histogram, alg.shards)]
    /\ UNCHANGED <<cur, steps>>

InitMrc ==
    /\ MrcInit
    /\ steps = 0
    /\ cache = NewCache("fifo", 0, NoCfg) /\ last = NoCall /\ after = NoAfter
    /\ hist = HistIdle /\ hlast = NoCall
    /\ cres = <<>> /\ MapIdle /\ ParIdle /\ RunIdle /\ StackIdle

NextMrc ==
    \/ MrcHandle /\ UNCHANGED <<cacheVars, histVars, cres, mapVars, par, run, stk>>
    \/ MrcCurve /\ UNCHANGED <<cacheVars, histVars, cres, mapVars, par, run, stk>>

SpecMrc == InitMrc /\ [][NextMrc]_vars

\* C12: for every curve Kosmo produces from a histogram, without SHARDS
\* correction or with one that is positive, zero or negative, get_miss_ratio
\* is monotonically non-increasing in the size.
C12_CurveNonIncreasing ==
    pc = "done" => NonIncreasing(curves[1])

\* a curve of two points with different miss ratios, built with a negative
\* correction
C12_Witness ==
    /\ pc = "done"
    /\ alg.shards.kind = "fixed_rate"
    /\ get_correction(alg.shards) < 0
    /\ \E s1, s2 \in DOMAIN curves[1] : s1 < s2 /\ curves[1][s2] # curves[1][s1]

\* curves built with a positive correction, with none, and without SHARDS
C12_Cases ==
    /\ pc = "done"
    /\ \E s1, s2 \in DOMAIN curves[1] : s1 < s2 /\ curves[1][s2] # curves[1][s1]
    /\ \/ alg.shards.kind = "none"
       \/ alg.shards.kind = "fixed_size" /\ alg.shards.global_t < MODULUS
       \/ alg.shards.kind = "fixed_rate" /\ get_correction(alg.shards) > 0

-----------------------------------------------------------------------------
(* The eviction maps of the other Kosmo policies: LRU, LFU and 2Q          *)

\* LruEvictionMap::new.  access.size as u64 - 1: the accesses Kosmo
\* processes have passed verify_access, so their size is at least 1
LruEvictionMap(access) == [evicted_size |-> access.size - 1]

\* LruEvictionMap::insert
LruEvictionMap_insert(m, sz) == [m EXCEPT !.evicted_size = sz]

\* LruEvictionMap::exists_at with <= in place of <
M_LruEvictionMap_exists_at_le(m, sz) == m.evicted_size <= sz

\* mutant: the comparison of LruEvictionMap::exists_at is turned around
M_LruEvictionMap_exists_at_below(m, sz) == m.evicted_size > sz

\* LruEvictionMap::exists_at
LruEvictionMap_exists_at(m, sz) == m.evicted_size < sz

\* LruEvictionMap::update without the - 1
M_LruEvictionMap_update_size(m, access) == [m EXCEPT !.evicted_size = access.size]

\* LruEvictionMap::update
LruEvictionMap_update(m, access) == [m EXCEPT !.evicted_size = access.size - 1]

\* LfuEvictionMap::new
LfuEvictionMap == [global_count |-> 1, map |-> <<>>]

\* EvictionRecord::new of lfu_eviction_map.rs
LfuEvictionRecord(sz, count) == [size |-> sz, count |-> count]

\* LfuEvictionMap::insert
LfuEvictionMap_insert(m, sz) ==
    [m EXCEPT !.map = Append(PopWhileLe(m.map, sz), LfuEvictionRecord(sz, m.global_count))]

\* LfuEvictionMap::update
LfuEvictionMap_update(m, access) == [m EXCEPT !.global_count = m.global_count + 1]

\* LfuEvictionMap::count_at: walks the records from the last one back
RECURSIVE count_at_from(_, _, _)
count_at_from(m, i, sz) ==
    IF i = 0 THEN Some(m.global_count)
    ELSE IF m.map[i].size >= sz
    THEN (IF m.global_count - m.map[i].count = 0 THEN None
          ELSE Some(m.global_count - m.map[i].count))
    ELSE count_at_from(m, i - 1, sz)

\* count_at that stops at the last record whatever its size
M_count_at_last(m, sz) ==
    IF m.map = <<>> THEN Some(m.global_count)
    ELSE IF m.global_count - back(m.map).count = 0 THEN None
    ELSE Some(m.global_count - back(m.map).count)

count_at(m, sz) == count_at_from(m, Len(m.map), sz)

\* fn f of lrfu_eviction_map.rs: (1.0 / p).powf(lambda * x), exact for p = 2
\* and lambda 0 or 1
LrfuEvictionMap_f(p, lambda, x) == IF lambda = 0 THEN ROne ELSE Rat(1, Pow2(x))

\* EvictionRecord::new of lrfu_eviction_map.rs
LrfuEvictionRecord(sz, crf) == [size |-> sz, crf |-> crf]

\* LrfuEvictionMap::new
LrfuEvictionMap(access, p, lambda) ==
    [p |-> p, lambda |-> lambda, timestamp |-> access.timestamp,
     map |-> <<LrfuEvictionRecord(0, LrfuEvictionMap_f(p, lambda, 0))>>]

\* LrfuEvictionMap::insert
LrfuEvictionMap_insert(m, sz) ==
    IF m.map # <<>> /\ back(m.map).size > sz THEN m
    ELSE LET popped == PopWhileLe(m.map, sz)
             updated_crf == IF Len(popped) < Len(m.map)
                            THEN m.map[Len(popped) + 1].crf
                            ELSE LrfuEvictionMap_f(m.p, m.lambda, 0)
         IN  IF popped = <<>> \/ back(popped).size # sz + 1
             THEN [m EXCEPT !.map = Append(popped, LrfuEvictionRecord(sz + 1, updated_crf))]
             ELSE [m EXCEPT !.map = popped]

\* EvictionRecord::update of lrfu_eviction_map.rs
LrfuEvictionRecord_update(record, last_timestamp, access, p, lambda) ==
    [record EXCEPT !.crf =
        RAdd(LrfuEvictionMap_f(p, lambda, 0),
             RMul(LrfuEvictionMap_f(p, lambda, access.timestamp - last_timestamp), record.crf))]

\* LrfuEvictionMap::update
LrfuEvictionMap_update(m, access) ==
    LET updated == [i \in 1..Len(m.map) |->
                       LrfuEvictionRecord_update(m.map[i], m.timestamp, access, m.p, m.lambda)]
    IN  [m EXCEPT !.timestamp = access.timestamp,
                  !.map = IF updated # <<>> /\ back(updated).size = 0
                          THEN updated
                          ELSE Append(updated,
                                      LrfuEvictionRecord(0, LrfuEvictionMap_f(m.p, m.lambda, 0)))]

\* LrfuEvictionMap::crf_at: walks the records from the last one back
RECURSIVE crf_at_from(_, _, _, _)
crf_at_from(m, i, sz, crf) ==
    IF i = 0 THEN crf
    ELSE IF m.map[i].size = sz THEN Some(m.map[i].crf)
    ELSE IF m.map[i].size > sz THEN crf
    ELSE crf_at_from(m, i - 1, sz, Some(m.map[i].crf))

crf_at(m, sz) == crf_at_from(m, Len(m.map), sz, None)

\* LrfuEvictionMap::exists_at
LrfuEvictionMap_exists_at(m, sz) == crf_at(m, sz) # None

\* TwoQEvictionMap::new
TwoQEvictionMap(access, kin, kout) ==
    [kin |-> kin, kout |-> kout,
     fifo_map |-> <<EvictionRecord(0, access.timestamp)>>,
     lfu_global_count |-> 1, lfu_map |-> <<>>]

\* TwoQEvictionMap::ain_size, aout_size, a1_size
ain_size(m, sz)  == FloorMul(m.kin, sz)
aout_size(m, sz) == FloorMul(m.kout, sz)
a1_size(m, sz)   == ain_size(m, sz) + aout_size(m, sz)

\* TwoQEvictionMap::insert_fifo: the insert of the FIFO map at a1_size(size)
insert_fifo(m, sz) ==
    [m EXCEPT !.fifo_map = FifoEvictionMap_insert(m.fifo_map, a1_size(m, sz))]

\* TwoQEvictionMap::insert_lfu
insert_lfu(m, sz) ==
    [m EXCEPT !.lfu_map = Append(PopWhileLe(m.lfu_map, sz),
                                 LfuEvictionRecord(sz, m.lfu_global_count))]

\* TwoQEvictionMap::insert without its FIFO half
M_TwoQEvictionMap_insert_lfu_only(m, sz) == insert_lfu(m, sz)

\* TwoQEvictionMap::insert
TwoQEvictionMap_insert(m, sz) == insert_lfu(insert_fifo(m, sz), sz)

\* TwoQEvictionMap::update
TwoQEvictionMap_update(m, access) ==
    [m EXCEPT !.lfu_global_count = m.lfu_global_count + 1,
              !.fifo_map = FifoEvictionMap_update(m.fifo_map, access)]

\* StackLocation
A1(timestamp) == <<"A1", timestamp>>
Am == <<"Am">>

\* the loop of stack_location_at over the FIFO records, from the last one
\* back: the ain_timestamp and aout_timestamp it ends with
RECURSIVE stack_location_scan(_, _, _, _, _)
stack_location_scan(m, i, sz, ain_timestamp, aout_timestamp) ==
    IF i = 0 THEN <<ain_timestamp, aout_timestamp>>
    ELSE LET record == m.fifo_map[i]
         IN  IF record.size > a1_size(m, sz) THEN <<ain_timestamp, aout_timestamp>>
             ELSE IF record.size = a1_size(m, sz)
             THEN <<ain_timestamp, Some(record.timestamp)>>
             ELSE IF record.size > ain_size(m, sz)
             THEN stack_location_scan(m, i - 1, sz, ain_timestamp, Some(record.timestamp))
             ELSE stack_location_scan(m, i - 1, sz, Some(record.timestamp),
                                      Some(record.timestamp))

\* TwoQEvictionMap::stack_location_at
stack_location_at(m, sz) ==
    LET scan == stack_location_scan(m, Len(m.fifo_map), sz, None, None)
        ain_timestamp  == scan[1]
        aout_timestamp == scan[2]
        am_exists ==
            \E i \in 1..Len(m.lfu_map) :
                /\ m.lfu_map[i].size > ain_size(m, sz)
                /\ m.lfu_map[i].size <= a1_size(m, sz)
                /\ m.lfu_global_count - m.lfu_map[i].count >= 2
    IN  IF aout_timestamp = None
        THEN (IF ain_timestamp = None THEN None ELSE Some(A1(ain_timestamp[1])))
        ELSE IF am_exists THEN Some(Am) ELSE Some(A1(aout_timestamp[1]))

-----------------------------------------------------------------------------
(* SpecMap: the eviction map of one object under one policy, from its      *)
(* creation by the object's first access, through evictions (insert) and   *)
(* re-accesses (update)                                                    *)

MaxMapCalls   == 5      \* insert and update calls per run
MaxEvictSize  == 4      \* insert is called with sizes 1..MaxEvictSize
MaxAccessSize == 3      \* accesses have sizes 1..MaxAccessSize

MapPolicies == {<<"lru", NoCfg>>, <<"fifo", NoCfg>>, <<"lfu", NoCfg>>,
                <<"two_q", [kin |-> Quarter, kout |-> Half]>>,
                <<"two_q", [kin |-> Half, kout |-> Half]>>,
                <<"lrfu", [NoCfg EXCEPT !.lambda = 0]>>,
                <<"lrfu", [NoCfg EXCEPT !.lambda = 1]>>}

\* the sizes at which the map is queried
MapSizes == 0..(MaxEvictSize + 2)

\* EvictionMapPolicy::new
EvictionMapPolicy(policy, access) ==
    [kind |-> policy[1],
     map  |-> CASE policy[1] = "lru"  -> LruEvictionMap(access)
                [] policy[1] = "fifo" -> FifoEvictionMap(access)
                [] policy[1] = "lfu"  -> LfuEvictionMap
                [] policy[1] = "lrfu" -> LrfuEvictionMap(access, 2, policy[2].lambda)
                [] OTHER -> TwoQEvictionMap(access, policy[2].kin, policy[2].kout)]

\* EvictionMapPolicy::insert
EvictionMapPolicy_insert(e, sz) ==
    [e EXCEPT !.map = CASE e.kind = "lru"  -> LruEvictionMap_insert(e.map, sz)
                        [] e.kind = "fifo" -> FifoEvictionMap_insert(e.map, sz)
                        [] e.kind = "lfu"  -> LfuEvictionMap_insert(e.map, sz)
                        [] e.kind = "lrfu" -> LrfuEvictionMap_insert(e.map, sz)
                        [] OTHER -> TwoQEvictionMap_insert(e.map, sz)]

\* EvictionMapPolicy::update
EvictionMapPolicy_update(e, access) ==
    [e EXCEPT !.map = CASE e.kind = "lru"  -> LruEvictionMap_update(e.map, access)
                        [] e.kind = "fifo" -> FifoEvictionMap_update(e.map, access)
                        [] e.kind = "lfu"  -> LfuEvictionMap_update(e.map, access)
                        [] e.kind = "lrfu" -> LrfuEvictionMap_update(e.map, access)
                        [] OTHER -> TwoQEvictionMap_update(e.map, access)]

\* the last call on the map: its argument, the map before it, and the call
\* before it
NoMapCall == [op |-> "new", size |-> 0, timestamp |-> 0, before |-> <<>>,
              prev_op |-> "none", prev_size |-> 0]

MapInit ==
    \E policy \in MapPolicies, sz \in 1..MaxAccessSize :
        /\ emap = EvictionMapPolicy(policy, Access(1, "Get", 1, sz))
        /\ mlast = [NoMapCall EXCEPT !.size = sz, !.timestamp = 1]

\* eviction_map.insert(size): the object was evicted at that cache size
EvictionInsert ==
    /\ steps < MaxMapCalls
    /\ steps' = steps + 1
    /\ \E sz \in 1..MaxEvictSize :
          /\ emap' = EvictionMapPolicy_insert(emap, sz)
          /\ mlast' = [op |-> "insert", size |-> sz, timestamp |-> 0, before |-> emap,
                       prev_op |-> mlast.op, prev_size |-> mlast.size]

\* eviction_map.update(access): the object was accessed again
EvictionUpdate ==
    /\ steps < MaxMapCalls
    /\ steps' = steps + 1
    /\ \E sz \in 1..MaxAccessSize :
          /\ emap' = EvictionMapPolicy_update(emap, Access(steps + 2, "Get", 1, sz))
          /\ mlast' = [op |-> "update", size |-> sz, timestamp |-> steps + 2,
                       before |-> emap, prev_op |-> mlast.op, prev_size |-> mlast.size]

InitMap ==
    /\ MapInit
    /\ steps = 0
    /\ cache = NewCache("fifo", 0, NoCfg) /\ last = NoCall /\ after = NoAfter
    /\ alg = AlgIdle /\ pc = "idle" /\ cur = NoCall
    /\ hist = HistIdle /\ hlast = NoCall
    /\ CurveIdle /\ ParIdle /\ RunIdle /\ StackIdle

NextMap ==
    \/ EvictionInsert /\ UNCHANGED <<cacheVars, algVars, histVars, curveVars, par, run, stk>>
    \/ EvictionUpdate /\ UNCHANGED <<cacheVars, algVars, histVars, curveVars, par, run, stk>>

SpecMap == InitMap /\ [][NextMap]_vars

\* C14: for the LRU eviction map, after update(access) (a re-access)
\* exists_at(s) is true for all s >= 1; after insert(k), exists_at(s) is
\* false for all s <= k.
C14_Original ==
    emap.kind = "lru" =>
        /\ mlast.op = "update" =>
              \A s \in MapSizes : s >= 1 => LruEvictionMap_exists_at(emap.map, s)
        /\ mlast.op = "insert" =>
              \A s \in MapSizes : s <= mlast.size => ~LruEvictionMap_exists_at(emap.map, s)

\* C14, amended: after update(access), exists_at(s) is true for all
\* s >= access.size (and false below); after insert(k), exists_at(s) is false
\* for all s <= k.
C14_Amended ==
    emap.kind = "lru" =>
        /\ mlast.op = "update" =>
              \A s \in MapSizes :
                  LruEvictionMap_exists_at(emap.map, s) <=> s >= mlast.size
        /\ mlast.op = "insert" =>
              \A s \in MapSizes : s <= mlast.size => ~LruEvictionMap_exists_at(emap.map, s)

\* a re-access of size 3 after an eviction at size 4: the object exists at 3
\* and not at 1 or 2
C14_Witness ==
    /\ emap.kind = "lru" /\ mlast.op = "update" /\ mlast.size = 3
    /\ mlast.prev_op = "insert" /\ mlast.prev_size = 4
    /\ LruEvictionMap_exists_at(emap.map, 3)
    /\ ~LruEvictionMap_exists_at(emap.map, 2)

\* the threshold of the LRU map after the last call
LruThreshold == IF mlast.op = "insert" THEN mlast.size ELSE mlast.size - 1

\* C15: for the LRU eviction map, exists_at(s) is true exactly when s is
\* greater than the map's threshold; new(access) and update(access) set the
\* threshold to access.size - 1 and insert(k) sets it to k: after
\* update(access) the object exists at s iff s >= access.size, and after
\* insert(k) iff s > k.
C15_LruThreshold ==
    emap.kind = "lru" =>
        /\ emap.map.evicted_size = LruThreshold
        /\ \A s \in MapSizes : LruEvictionMap_exists_at(emap.map, s) <=> s > LruThreshold
        /\ mlast.op \in {"new", "update"} =>
              \A s \in MapSizes : LruEvictionMap_exists_at(emap.map, s) <=> s >= mlast.size
        /\ mlast.op = "insert" =>
              \A s \in MapSizes : LruEvictionMap_exists_at(emap.map, s) <=> s > mlast.size

\* an eviction at size 2 after a re-access: the object exists at 3, not at 2
C15_Witness ==
    /\ emap.kind = "lru" /\ mlast.op = "insert" /\ mlast.size = 2
    /\ mlast.prev_op = "update"
    /\ LruEvictionMap_exists_at(emap.map, 3)
    /\ ~LruEvictionMap_exists_at(emap.map, 2)

\* C16: for the FIFO eviction map, after insert(k) timestamp_at(s) is None
\* for every s <= k; after a following update with timestamp t,
\* timestamp_at(s) = t for every s <= k; and an update leaves timestamp_at(s)
\* unchanged at every size s where the object already existed.
C16_FifoTimestamps ==
    emap.kind = "fifo" =>
        /\ mlast.op = "insert" =>
              \A s \in MapSizes : s <= mlast.size => timestamp_at(emap.map, s) = None
        /\ (mlast.op = "update" /\ mlast.prev_op = "insert") =>
              \A s \in MapSizes :
                  s <= mlast.prev_size => timestamp_at(emap.map, s) = Some(mlast.timestamp)
        /\ mlast.op = "update" =>
              \A s \in MapSizes :
                  timestamp_at(mlast.before.map, s) # None =>
                      timestamp_at(emap.map, s) = timestamp_at(mlast.before.map, s)

\* a re-access after an eviction at size 2: the object is newly admitted at
\* size 2 and keeps its admission time at size 3
C16_Witness ==
    /\ emap.kind = "fifo" /\ mlast.op = "update"
    /\ mlast.prev_op = "insert" /\ mlast.prev_size = 2
    /\ timestamp_at(emap.map, 2) = Some(mlast.timestamp)
    /\ timestamp_at(emap.map, 3) # None
    /\ timestamp_at(emap.map, 3) # Some(mlast.timestamp)

\* C17: for the LFU eviction map, insert(k) makes count_at(s) None for every
\* s <= k and leaves count_at(s) unchanged for every s > k; each update
\* raises count_at(s) by one at every size where the object exists and makes
\* it 1 at every size where it did not exist.
C17_LfuCounts ==
    emap.kind = "lfu" =>
        /\ mlast.op = "insert" =>
              \A s \in MapSizes :
                  /\ s <= mlast.size => count_at(emap.map, s) = None
                  /\ s > mlast.size => count_at(emap.map, s) = count_at(mlast.before.map, s)
        /\ mlast.op = "update" =>
              \A s \in MapSizes :
                  count_at(emap.map, s) =
                      IF count_at(mlast.before.map, s) = None THEN Some(1)
                      ELSE Some(count_at(mlast.before.map, s)[1] + 1)

\* a re-access after an eviction at size 2 that followed a re-access: the
\* count is 1 at size 2 and 3 at size 3
C17_Witness ==
    /\ emap.kind = "lfu" /\ mlast.op = "update"
    /\ mlast.prev_op = "insert" /\ mlast.prev_size = 2
    /\ count_at(emap.map, 2) = Some(1)
    /\ count_at(emap.map, 3) = Some(3)

\* C18: for the 2Q eviction map with parameters kin and kout, after
\* insert(c) stack_location_at(s) is None for every s <= c; after the next
\* update with timestamp t, stack_location_at(s) is A1(t) for every s <= c,
\* while at a size where the object was still in A1 the location stays A1
\* with its earlier timestamp unless the LFU part promotes it to Am.
C18_TwoQLocations ==
    emap.kind = "two_q" =>
        /\ mlast.op = "insert" =>
              \A s \in MapSizes : s <= mlast.size => stack_location_at(emap.map, s) = None
        /\ (mlast.op = "update" /\ mlast.prev_op = "insert") =>
              \A s \in MapSizes :
                  s <= mlast.prev_size =>
                      stack_location_at(emap.map, s) = Some(A1(mlast.timestamp))
        /\ mlast.op = "update" =>
              \A s \in MapSizes :
                  LET before == stack_location_at(mlast.before.map, s)
                  IN  (before # None /\ before # Some(Am)) =>
                          stack_location_at(emap.map, s) \in {before, Some(Am)}

\* a re-access after an eviction at size 4 with kin = 1/4 and kout = 1/2:
\* the object is in A1 since this access at size 4 and since an earlier one
\* at size 6
C18_Witness ==
    /\ emap.kind = "two_q" /\ emap.map.kin = Quarter
    /\ mlast.op = "update" /\ mlast.prev_op = "insert" /\ mlast.prev_size = 4
    /\ stack_location_at(emap.map, 4) = Some(A1(mlast.timestamp))
    /\ stack_location_at(emap.map, 6) # None
    /\ stack_location_at(emap.map, 6) # Some(Am)
    /\ stack_location_at(emap.map, 6) # Some(A1(mlast.timestamp))

\* a re-access that promotes the object from A1 to Am at some size
C18_Promoted ==
    /\ emap.kind = "two_q" /\ mlast.op = "update"
    /\ \E s \in MapSizes :
          /\ stack_location_at(emap.map, s) = Some(Am)
          /\ stack_location_at(mlast.before.map, s) \notin {None, Some(Am)}

-----------------------------------------------------------------------------
(* SpecPar: the two rayon fan-outs.  Kosmo::perform_evictions maps the     *)
(* cache sizes to reconstruction tasks that read the global table through  *)
(* a shared reference and collects their results; Minisimulations::process *)
(* hands every cache to a task of its own through par_iter_mut.  The tasks *)
(* of a fan-out run in any order; the caller goes on when all have ended.  *)

MaxParAccesses == 4     \* accesses processed per run
ParCaches      == 3     \* caches of the MiniSim driver in this specification

\* Kosmo::process up to the call of perform_evictions: the driver, and the
\* size to simulate
before_evictions(k, access) ==
    LET u == update_histograms(k, access)
    IN  IF u.max_reuse_distance = None
        THEN [k |-> [u.k EXCEPT !.total_size = u.k.total_size + access.size,
                                !.global_table = MapInsert(u.k.global_table, access.key,
                                                           GlobalObject(access))],
              simulate_size |-> u.k.total_size + access.size]
        ELSE [k |-> u.k, simulate_size |-> u.max_reuse_distance[1]]

\* the step_size of perform_evictions
eviction_step_size(access, simulate_size) ==
    Max2(Max2(MIN_RECONSTRUCTED_STACK_SIZE, access.size),
         CeilDiv(simulate_size, GRANULARITY))

\* collect() that takes the results in the order the tasks ended
M_collect_as_finished(results, finished) ==
    [j \in 1..Len(finished) |-> results[finished[j]]]

\* collect() of an indexed parallel iterator: the results in the order of
\* the cache sizes, whatever the order the tasks ended in
collect(results, finished) == [j \in 1..Len(finished) |-> results[j]]

\* the for loop of perform_evictions over the collected evictions, from the
\* last index down
RECURSIVE apply_evictions(_, _, _, _)
apply_evictions(global_table, policy_evictions, index, step_size) ==
    IF index = 0 THEN global_table
    ELSE apply_evictions(evict_keys(global_table, policy_evictions[index][1],
                                    index * step_size),
                         policy_evictions, index - 1, step_size)

ParIdleState(a) ==
    [alg |-> a, phase |-> "idle", access |-> Access(0, "Get", 0, 0), step_size |-> 0,
     results |-> <<>>, finished |-> <<>>, pending |-> {},
     expected |-> a, solo |-> a.caches, forked |-> FALSE]

ParInit ==
    par \in {ParIdleState(Kosmo(NoShards)),
             ParIdleState([Minisimulations(<<"fifo", NoCfg>>, MaxCacheSize, NoShards)
                              EXCEPT !.caches = get_caches(<<"fifo", NoCfg>>, MaxCacheSize,
                                                           ParCaches, NoShards)])}

\* Kosmo::process: update_histograms, then perform_evictions up to the
\* start of the parallel map
KosmoFork ==
    /\ par.alg.kind = "kosmo" /\ par.phase = "idle"
    /\ steps < MaxParAccesses
    /\ steps' = steps + 1
    /\ \E access \in {a \in Accesses(steps + 1) : verify_access(a)} :
          LET b         == before_evictions(par.alg, access)
              step_size == eviction_step_size(access, b.simulate_size)
              n         == Len(step_by(step_size, b.simulate_size + step_size, step_size))
              begun     == [ParIdleState(b.k) EXCEPT
                               !.access = access,
                               !.expected = Kosmo_process(par.alg, access),
                               !.solo = par.solo]
          IN  par' = IF step_size > b.simulate_size THEN begun
                     ELSE [begun EXCEPT !.phase = "fanout", !.step_size = step_size,
                                        !.results = [i \in 1..n |-> None],
                                        !.forked = TRUE]

\* one task of the parallel map: reconstruct_policy_stacks for one cache
\* size, from the table all tasks share
KosmoReconstruct ==
    /\ par.alg.kind = "kosmo" /\ par.phase = "fanout"
    /\ \E i \in 1..Len(par.results) :
          /\ par.results[i] = None
          /\ par' = [par EXCEPT
                        !.results[i] = Some(reconstruct_policy_stacks(
                                                i * par.step_size, par.alg.global_table,
                                                par.access.key)),
                        !.finished = Append(par.finished, i)]
    /\ UNCHANGED steps

\* all tasks have ended: collect(), then the evictions are applied
KosmoJoin ==
    /\ par.alg.kind = "kosmo" /\ par.phase = "fanout"
    /\ Len(par.finished) = Len(par.results)
    /\ LET policy_evictions == collect(par.results, par.finished)
       IN  par' = [par EXCEPT
                      !.phase = "idle",
                      !.alg.global_table =
                          apply_evictions(par.alg.global_table, policy_evictions,
                                          Len(policy_evictions), par.step_size)]
    /\ UNCHANGED steps

\* Minisimulations::process up to the start of par_iter_mut().for_each
MiniFork ==
    /\ par.alg.kind = "minisim" /\ par.phase = "idle"
    /\ steps < MaxParAccesses
    /\ steps' = steps + 1
    /\ \E access \in {a \in Accesses(steps + 1) : verify_access(a)} :
          par' = [ParIdleState(par.alg) EXCEPT
                     !.access = access, !.phase = "fanout",
                     !.pending = 1..Len(par.alg.caches),
                     !.solo = [i \in 1..Len(par.solo) |->
                                  handle_self_populating(par.solo[i], access).c],
                     !.forked = TRUE]

\* one task of for_each: cache.handle_self_populating(access)
MiniTask ==
    /\ par.alg.kind = "minisim" /\ par.phase = "fanout"
    /\ \E i \in par.pending :
          par' = [par EXCEPT
                     !.alg.caches[i] = handle_self_populating(par.alg.caches[i],
                                                              par.access).c,
                     !.pending = par.pending \ {i},
                     !.finished = Append(par.finished, i)]
    /\ UNCHANGED steps

\* all tasks have ended: for_each returns
MiniJoin ==
    /\ par.alg.kind = "minisim" /\ par.phase = "fanout"
    /\ par.pending = {}
    /\ par' = [par EXCEPT !.phase = "idle"]
    /\ UNCHANGED steps

InitPar ==
    /\ ParInit
    /\ steps = 0
    /\ cache = NewCache("fifo", 0, NoCfg) /\ last = NoCall /\ after = NoAfter
    /\ alg = AlgIdle /\ pc = "idle" /\ cur = NoCall
    /\ hist = HistIdle /\ hlast = NoCall
    /\ CurveIdle /\ MapIdle /\ RunIdle /\ StackIdle

NextPar ==
    \/ KosmoFork /\ UNCHANGED <<cacheVars, algVars, histVars, curveVars, mapVars, run, stk>>
    \/ KosmoReconstruct /\ UNCHANGED <<cacheVars, algVars, histVars, curveVars, mapVars, run, stk>>
    \/ KosmoJoin /\ UNCHANGED <<cacheVars, algVars, histVars, curveVars, mapVars, run, stk>>
    \/ MiniFork /\ UNCHANGED <<cacheVars, algVars, histVars, curveVars, mapVars, run, stk>>
    \/ MiniTask /\ UNCHANGED <<cacheVars, algVars, histVars, curveVars, mapVars, run, stk>>
    \/ MiniJoin /\ UNCHANGED <<cacheVars, algVars, histVars, curveVars, mapVars, run, stk>>

SpecPar == InitPar /\ [][NextPar]_vars

\* C19: the parallel fan-outs do not affect results.  For every
\* interleaving of the per-cache-size reconstruction tasks, Kosmo's eviction
\* maps after an access are those of reconstructing the cache sizes one
\* after the other from the same snapshot; for every interleaving of the
\* per-cache tasks, each MiniSim cache ends in the state it reaches by
\* processing the trace alone.
C19_FanOutDeterministic ==
    par.phase = "idle" =>
        /\ par.alg.kind = "kosmo" => par.alg.global_table = par.expected.global_table
        /\ par.alg.kind = "minisim" => par.alg.caches = par.solo

\* a Kosmo fan-out of two or more tasks that ended out of order, after
\* which some eviction map has changed
C19_Witness ==
    /\ par.alg.kind = "kosmo" /\ par.phase = "idle" /\ par.forked
    /\ Len(par.finished) >= 2
    /\ \E j \in 1..(Len(par.finished) - 1) : par.finished[j] > par.finished[j + 1]
    /\ \E k \in DOMAIN par.alg.global_table : Len(par.alg.global_table[k].eviction_map) > 1
    /\ \E i \in 1..Len(par.results) : par.results[i] # Some(<<>>)

\* a MiniSim fan-out whose tasks ended out of order and changed the caches
\* in different ways
C19_WitnessMiniSim ==
    /\ par.alg.kind = "minisim" /\ par.phase = "idle" /\ par.forked
    /\ \E j \in 1..(Len(par.finished) - 1) : par.finished[j] > par.finished[j + 1]
    /\ \E i, j \in 1..Len(par.alg.caches) :
          StoredObjects(par.alg.caches[i]) # StoredObjects(par.alg.caches[j])

-----------------------------------------------------------------------------
(* SpecRun: the read loop of mrc.rs, in memory mode (every access is       *)
(* handled when it is read) and in throughput mode (the accesses are       *)
(* gathered in a batch that run_batch hands to the algorithm)              *)

BATCH_SIZE == 10000000

ModelBatchSize == 2     \* the batch size of the runs checked, in place of BATCH_SIZE
MaxTraceLen    == 5     \* accesses in the trace

\* run_batch: algorithm.handle for every access of the batch, in order
run_batch(handled, accesses) == handled \o accesses

RunTypes == {"Memory", "Throughput"}

RunInit ==
    \E run_type \in RunTypes :
        run = [run_type |-> run_type,
               accesses |-> IF run_type = "Throughput" THEN Some(<<>>) ELSE None,
               read |-> <<>>, handled |-> <<>>, total_accesses |-> 0, phase |-> "reading"]

\* the match of the while body for the access just read
read_body(r, access) ==
    IF r.accesses = None THEN [r EXCEPT !.handled = Append(r.handled, access)]
    ELSE IF Len(r.accesses[1]) = ModelBatchSize
    THEN [r EXCEPT !.handled = run_batch(r.handled, r.accesses[1]),
                   !.accesses = Some(<<>>)]
    ELSE [r EXCEPT !.accesses = Some(Append(r.accesses[1], access))]

\* reader.read_chunk() returns the next access of the trace
RunRead ==
    /\ run.phase = "reading"
    /\ run.total_accesses < MaxTraceLen
    /\ \E k \in Keys :
          LET access == Access(run.total_accesses + 1, "Get", k, SmallSize)
              r      == read_body(run, access)
          IN  run' = [r EXCEPT !.read = Append(run.read, access),
                               !.total_accesses = run.total_accesses + 1]

\* reader.read_chunk() returns None: the batch left over is run
RunEnd ==
    /\ run.phase = "reading"
    /\ run' = [run EXCEPT
                  !.phase = "done",
                  !.handled = IF run.accesses # None /\ run.accesses[1] # <<>>
                              THEN run_batch(run.handled, run.accesses[1])
                              ELSE run.handled]

InitRun ==
    /\ RunInit
    /\ steps = 0
    /\ cache = NewCache("fifo", 0, NoCfg) /\ last = NoCall /\ after = NoAfter
    /\ alg = AlgIdle /\ pc = "idle" /\ cur = NoCall
    /\ hist = HistIdle /\ hlast = NoCall
    /\ CurveIdle /\ MapIdle /\ ParIdle /\ StackIdle

NextRun ==
    \/ RunRead /\ UNCHANGED <<cacheVars, algVars, histVars, steps, curveVars, mapVars, par, stk>>
    \/ RunEnd /\ UNCHANGED <<cacheVars, algVars, histVars, steps, curveVars, mapVars, par, stk>>

SpecRun == InitRun /\ [][NextRun]_vars

\* C20: in throughput mode, every access read from the trace is passed to
\* Algorithm::handle exactly once and in trace order (in batches of up to
\* BATCH_SIZE = 10,000,000), so that the algorithm sees the same sequence of
\* accesses as in memory mode.
C20_ThroughputHandlesAll ==
    /\ BATCH_SIZE = 10000000
    /\ (run.run_type = "Throughput" /\ run.phase = "done") => run.handled = run.read

\* in memory mode every access read has been handled, in trace order
C20_MemoryHandlesAll ==
    run.run_type = "Memory" => run.handled = run.read

\* what throughput mode does: the access read while the batch is full is
\* dropped, so of the accesses read the algorithm sees all but every
\* (batch size + 1)-th
C20_ThroughputDrops ==
    (run.run_type = "Throughput" /\ run.phase = "done") =>
        run.handled = SelectSeq(run.read,
                                LAMBDA a : a.timestamp % (ModelBatchSize + 1) # 0)

\* C25: FifoEvictionMap.insert(k) does not change timestamp_at(s) for any
\* s > k, in every map state reachable by new, update and insert.
C25_FifoInsertFrame ==
    (emap.kind = "fifo" /\ mlast.op = "insert") =>
        \A s \in MapSizes :
            s > mlast.size => timestamp_at(emap.map, s) = timestamp_at(mlast.before.map, s)

\* what insert(k) keeps: timestamp_at(s) is unchanged for s > k when the map
\* held at most one record of a size <= k, and wherever the object did not
\* exist before it does not exist after
C25_FifoInsertKeeps ==
    (emap.kind = "fifo" /\ mlast.op = "insert") =>
        \A s \in MapSizes :
            /\ timestamp_at(mlast.before.map, s) = None => timestamp_at(emap.map, s) = None
            /\ (s > mlast.size
                /\ Cardinality({i \in 1..Len(mlast.before.map) :
                                   mlast.before.map[i].size <= mlast.size}) <= 1)
               => timestamp_at(emap.map, s) = timestamp_at(mlast.before.map, s)

-----------------------------------------------------------------------------
(* MiniSim's caches under SHARDS (checked in SpecAlg)                       *)

REq(a, b) == a.n * b.d = b.n * a.d

\* the capacity of cache i for a sampling rate
CacheCapacity(a, i, rate) == (rate.n * (i * (a.max_cache_size \div 100))) \div rate.d

\* C22: MiniSim always holds 100 caches, and between handle calls cache i has
\* capacity i * floor(max_cache_size / 100) without SHARDS and
\* floor(i * floor(max_cache_size / 100) * rate) with SHARDS, for the rate in
\* force: at construction and after every lowering of global_t.
C22_CacheCapacities ==
    alg.kind = "minisim" =>
        /\ Len(alg.caches) = 100
        /\ pc = "idle" =>
              \A i \in 1..100 :
                  size(alg.caches[i]) =
                      CacheCapacity(alg, i, IF alg.shards.kind = "none" THEN ROne
                                            ELSE Rat(alg.shards.global_t, MODULUS))

\* a handle call of MiniSim has returned after fixed-size SHARDS lowered
\* global_t during it, and the caches have distinct positive capacities
C22_Witness ==
    /\ alg.kind = "minisim" /\ alg.shards.kind = "fixed_size"
    /\ pc = "idle" /\ cur.outcome = "processed" /\ cur.removal # None
    /\ alg.shards.global_t < MODULUS
    /\ size(alg.caches[1]) > 0
    /\ size(alg.caches[100]) < MaxCacheSize

\* C23: when global_t was lowered while the access was handled, process
\* resizes every cache and multiplies its count and hits by new_global_t /
\* old_global_t once, before the cache handles the access; when global_t did
\* not change, no cache is resized or rescaled.
C23_RescaleOnceBeforeProcess ==
    [][(pc = "process" /\ alg.kind = "minisim") =>
          LET g       == IF alg.shards.kind # "none" THEN alg.shards.global_t ELSE 0
              changed == g # alg.shards_global_t
              ratio   == IF changed THEN Rat(g, alg.shards_global_t) ELSE ROne
          IN  /\ alg'.shards_global_t = g
              /\ \A i \in 1..100 :
                    LET old      == alg.caches[i]
                        new      == alg'.caches[i]
                        cap      == IF changed THEN CacheCapacity(alg, i, Rat(g, MODULUS))
                                    ELSE size(old)
                        admitted == cur.access.size <= cap
                        counted  == RSub(new.count, RMul(old.count, ratio))
                        hit      == RSub(new.hits, RMul(old.hits, ratio))
                    IN  /\ size(new) = cap
                        /\ REq(counted, IF admitted THEN ROne ELSE RZero)
                        /\ REq(hit, RZero) \/ (admitted /\ REq(hit, ROne))
                        /\ ~changed =>
                              \A o \in DOMAIN old.map :
                                  o = cur.access.key \/ ~admitted => o \in DOMAIN new.map]_vars

\* process is about to run after global_t was lowered, on caches that have
\* counted accesses and hits
C23_Witness ==
    /\ alg.kind = "minisim" /\ alg.shards.kind = "fixed_size"
    /\ pc = "process"
    /\ alg.shards.global_t < alg.shards_global_t
    /\ RLt(RZero, alg.caches[100].hits)
    /\ RLt(alg.caches[100].hits, alg.caches[100].count)
    /\ alg.caches[1].count = RZero

\* process is about to run with global_t as it was, on caches that hold objects
C23_WitnessUnchanged ==
    /\ alg.kind = "minisim" /\ alg.shards.kind = "fixed_size"
    /\ pc = "process"
    /\ alg.shards.global_t = alg.shards_global_t
    /\ alg.caches[100].map # <<>>

\* the keys the driver stores: Kosmo's global table, MiniSim's caches
StoredKeys(a) ==
    (DOMAIN a.global_table)
    \cup UNION {DOMAIN a.caches[i].map : i \in 1..Len(a.caches)}

\* C30: with fixed-size SHARDS, after every handle call every key in Kosmo's
\* global table and every key stored in a MiniSim cache is currently sampled:
\* its hash value is strictly below global_t.
C30_StoredKeysSampled ==
    (alg.shards.kind = "fixed_size" /\ pc = "idle") =>
        \A key \in StoredKeys(alg) : hash(alg.shards.seed, key) < alg.shards.global_t

\* a removal has lowered global_t and keys are still stored after the call
C30_Reached ==
    /\ alg.shards.kind = "fixed_size" /\ pc = "idle"
    /\ cur.removal # None
    /\ StoredKeys(alg) # {}
    /\ \A key \in StoredKeys(alg) : hash(alg.shards.seed, key) < alg.shards.global_t

-----------------------------------------------------------------------------
(* Local objects and reconstructed stacks (kosmo/local_object,             *)
(* kosmo/reconstructed_stack).  A local object is a global object seen at  *)
(* one cache size; g is [object |-> [timestamp, key, size]].  Rust's       *)
(* Ordering is "Less", "Equal" or "Greater".                               *)

U64Cmp(a, b) == IF a < b THEN "Less" ELSE IF a = b THEN "Equal" ELSE "Greater"

\* Option<u64>::cmp: None is below every Some
OptionCmp(x, y) ==
    IF x = None THEN (IF y = None THEN "Equal" ELSE "Less")
    ELSE IF y = None THEN "Greater" ELSE U64Cmp(x[1], y[1])

\* f64::total_cmp on the values a CRF takes (finite, positive)
total_cmp(x, y) == IF RLt(x, y) THEN "Less" ELSE IF RLt(y, x) THEN "Greater" ELSE "Equal"

\* FifoLocalObject::new
FifoLocalObject(g, inserted_timestamp) ==
    [key |-> g.object.key, size |-> g.object.size, timestamp |-> g.object.timestamp,
     inserted_timestamp |-> inserted_timestamp]

\* LfuLocalObject::new
LfuLocalObject(g, count) ==
    [key |-> g.object.key, size |-> g.object.size, timestamp |-> g.object.timestamp,
     count |-> count]

\* LrfuLocalObject::new
LrfuLocalObject(g, crf) ==
    [key |-> g.object.key, size |-> g.object.size, timestamp |-> g.object.timestamp,
     crf |-> crf]

\* LruLocalObject::new (kosmo/local_object/lru_local_object.rs is not among
\* the sources; the fields are those LruEvictionMap::as_local_object passes)
LruLocalObject(g, exists_at_size) ==
    [key |-> g.object.key, size |-> g.object.size, timestamp |-> g.object.timestamp,
     exists |-> exists_at_size]

\* LocalObject::exists
exists(policy, o) ==
    CASE policy = "fifo" -> o.inserted_timestamp # None
      [] policy = "lfu"  -> o.count # None
      [] policy = "lrfu" -> o.crf # None
      [] policy = "lru"  -> o.exists

\* mutant: the order of FifoLocalObject is not reversed
M_FifoLocalObject_cmp_forward(self, other) ==
    OptionCmp(self.inserted_timestamp, other.inserted_timestamp)

\* impl Ord for FifoLocalObject
FifoLocalObject_cmp(self, other) == OptionCmp(other.inserted_timestamp, self.inserted_timestamp)

\* impl Ord for LfuLocalObject
LfuLocalObject_cmp(self, other) ==
    LET ord == OptionCmp(other.count, self.count)
    IN  IF ord = "Equal" THEN U64Cmp(other.timestamp, self.timestamp) ELSE ord

\* impl Ord for LrfuLocalObject
LrfuLocalObject_cmp(self, other) ==
    LET ord == total_cmp(other.crf[1], self.crf[1])
    IN  IF ord = "Equal" THEN U64Cmp(other.timestamp, self.timestamp) ELSE ord

\* impl Ord for LruLocalObject, as the specification gives the order of a
\* reconstructed stack (the next victim on top): the least recently accessed
\* object is the greatest
LruLocalObject_cmp(self, other) == U64Cmp(other.timestamp, self.timestamp)

cmp(policy, self, other) ==
    CASE policy = "fifo" -> FifoLocalObject_cmp(self, other)
      [] policy = "lfu"  -> LfuLocalObject_cmp(self, other)
      [] policy = "lrfu" -> LrfuLocalObject_cmp(self, other)
      [] policy = "lru"  -> LruLocalObject_cmp(self, other)

\* ReconstructedStackPolicy::new; stack is the BinaryHeap, as the set of its
\* elements (the local objects of one stack have different keys)
ReconstructedStack(policy, max_size) ==
    [policy |-> policy, max_size |-> max_size, used_size |-> 0, stack |-> {}]

\* mutant: every local object is pushed
M_ReconstructedStack_insert_all(s, local_object) ==
    [s EXCEPT !.stack = @ \cup {local_object}, !.used_size = @ + local_object.size]

\* ReconstructedStack::insert
ReconstructedStack_insert(s, local_object) ==
    LET object_size == local_object.size
    IN  IF exists(s.policy, local_object)
        THEN [s EXCEPT !.stack = @ \cup {local_object}, !.used_size = @ + object_size]
        ELSE s

\* what BinaryHeap::pop may return: a greatest element.  Among elements
\* that compare Equal the heap's choice depends on its layout, so each of
\* them is an outcome.
heap_tops(policy, stack) ==
    {o \in stack : \A p \in stack : cmp(policy, o, p) # "Less"}

\* ReconstructedStack::get_eviction: the outcomes, one per element the heap
\* may pop; evicted is the Option<Key> returned
get_eviction(s, exclude_key) ==
    IF s.used_size <= s.max_size \/ s.stack = {}
    THEN {[stack |-> s, evicted |-> None, victim |-> None]}
    ELSE {[stack |-> [s EXCEPT !.stack = @ \ {o},
                               !.used_size = IF o.key # exclude_key THEN @ - o.size ELSE @],
           evicted |-> Some(o.key), victim |-> Some(o)] : o \in heap_tops(s.policy, s.stack)}

\* ReconstructedStack::get_evictions, from the keys collected so far; popped
\* lists the local objects in the order they left the heap (history)
RECURSIVE stack_get_evictions(_, _, _, _)
stack_get_evictions(s, exclude_key, keys, popped) ==
    UNION {IF r.evicted = None
           THEN {[stack |-> r.stack, keys |-> keys, popped |-> popped]}
           ELSE stack_get_evictions(r.stack, exclude_key,
                                    IF r.evicted[1] # exclude_key
                                    THEN Append(keys, r.evicted[1]) ELSE keys,
                                    Append(popped, r.victim[1]))
           : r \in get_eviction(s, exclude_key)}

-----------------------------------------------------------------------------
(* SpecStack: one reconstructed stack is filled with local objects and     *)
(* then asked for its evictions.                                           *)

MaxStackObjects == 3     \* local objects offered to one stack (keys 1..)
MaxStackSize    == 3     \* max_size of the stack is 0..MaxStackSize
MaxLocalSize    == 2     \* object sizes are 1..MaxLocalSize
MaxRank         == 2     \* timestamps, counts and CRF numerators are 1..MaxRank

StackPolicies == {"fifo", "lfu", "lrfu"}

\* the local objects of a key that an eviction map can hand to the stack
LocalObjects(policy, key) ==
    LET Globals == {[object |-> [timestamp |-> ts, key |-> key, size |-> sz]] :
                        ts \in 1..MaxRank, sz \in 1..MaxLocalSize}
        Ranks   == {None} \cup {Some(r) : r \in 1..MaxRank}
    IN  CASE policy = "fifo" -> {FifoLocalObject(g, r) : g \in Globals, r \in Ranks}
          [] policy = "lfu"  -> {LfuLocalObject(g, r) : g \in Globals, r \in Ranks}
          [] policy = "lrfu" ->
                {LrfuLocalObject(g, IF r = None THEN None ELSE Some(Rat(r[1], 2))) :
                     g \in Globals, r \in Ranks}

StackInit ==
    stk \in {[stack |-> ReconstructedStack(policy, max_size), exclude_key |-> exclude_key,
              offered |-> {}, phase |-> "insert", keys |-> <<>>, popped |-> <<>>,
              filled |-> ReconstructedStack(policy, max_size)] :
                 policy \in StackPolicies, max_size \in 0..MaxStackSize,
                 exclude_key \in 1..MaxStackObjects}

\* stack.insert(local_object), for the next global object of the table
StackInsert ==
    /\ stk.phase = "insert"
    /\ Cardinality(stk.offered) < MaxStackObjects
    /\ \E o \in LocalObjects(stk.stack.policy, Cardinality(stk.offered) + 1) :
          stk' = [stk EXCEPT !.stack = ReconstructedStack_insert(stk.stack, o),
                             !.offered = @ \cup {o}]

\* stack.get_evictions(exclude_key)
StackGetEvictions ==
    /\ stk.phase = "insert"
    /\ \E r \in stack_get_evictions(stk.stack, stk.exclude_key, <<>>, <<>>) :
          stk' = [stk EXCEPT !.stack = r.stack, !.keys = r.keys, !.popped = r.popped,
                             !.filled = stk.stack, !.phase = "done"]

InitStack ==
    /\ StackInit
    /\ steps = 0
    /\ cache = NewCache("fifo", 0, NoCfg) /\ last = NoCall /\ after = NoAfter
    /\ alg = AlgIdle /\ pc = "idle" /\ cur = NoCall
    /\ hist = HistIdle /\ hlast = NoCall
    /\ CurveIdle /\ MapIdle /\ ParIdle /\ RunIdle

NextStack ==
    \/ StackInsert /\ UNCHANGED <<cacheVars, algVars, histVars, steps, curveVars, mapVars, par, run>>
    \/ StackGetEvictions /\ UNCHANGED <<cacheVars, algVars, histVars, steps, curveVars, mapVars, par, run>>

SpecStack == InitStack /\ [][NextStack]_vars

\* the sizes of the popped local objects that are not the excluded key
RECURSIVE PoppedSize(_, _)
PoppedSize(popped, exclude_key) ==
    IF popped = <<>> THEN 0
    ELSE (IF Head(popped).key # exclude_key THEN Head(popped).size ELSE 0)
         + PoppedSize(Tail(popped), exclude_key)

\* a is evicted no later than b by the policy: FIFO by admission timestamp;
\* LFU by count, then by last access; LRFU by CRF, then by last access
PolicyOrder(policy, a, b) ==
    CASE policy = "fifo" -> a.inserted_timestamp[1] <= b.inserted_timestamp[1]
      [] policy = "lfu"  -> \/ a.count[1] < b.count[1]
                            \/ a.count[1] = b.count[1] /\ a.timestamp <= b.timestamp
      [] policy = "lrfu" -> \/ RLt(a.crf[1], b.crf[1])
                            \/ REq(a.crf[1], b.crf[1]) /\ a.timestamp <= b.timestamp

ExistsAtSize(policy, o) ==
    CASE policy = "fifo" -> o.inserted_timestamp # None
      [] policy = "lfu"  -> o.count # None
      [] policy = "lrfu" -> o.crf # None

\* C29: the FIFO, LFU and LRFU reconstructed stacks admit only the local
\* objects that exist at the stack's size; get_evictions pops victims in
\* policy order while used_size > max_size, never emits exclude_key and
\* never subtracts its size, and stops when used_size <= max_size or the
\* heap is empty.
C29_StackEvictions ==
    LET policy  == stk.stack.policy
        exclude == stk.exclude_key
        filled  == stk.filled
        popped  == stk.popped
        n       == Len(popped)
    IN  /\ stk.phase = "insert" =>
              /\ stk.stack.stack = {o \in stk.offered : ExistsAtSize(policy, o)}
              /\ stk.stack.used_size = SumObjSizes(stk.stack.stack)
        /\ stk.phase = "done" =>
              /\ \A i \in 1..n : popped[i] \in filled.stack
              /\ \A i, j \in 1..n : i < j =>
                    popped[i] # popped[j] /\ PolicyOrder(policy, popped[i], popped[j])
              /\ \A i \in 1..n : \A o \in stk.stack.stack : PolicyOrder(policy, popped[i], o)
              /\ stk.stack.stack = filled.stack \ {popped[i] : i \in 1..n}
              /\ stk.keys = SelectSeq([i \in 1..n |-> popped[i].key], LAMBDA k : k # exclude)
              /\ \A i \in 1..n :
                    filled.used_size - PoppedSize(SubSeq(popped, 1, i - 1), exclude)
                        > filled.max_size
              /\ stk.stack.used_size = filled.used_size - PoppedSize(popped, exclude)
              /\ stk.stack.used_size <= filled.max_size \/ stk.stack.stack = {}

\* get_evictions has popped the excluded key and then another object, and
\* stopped with objects left on the heap that were offered along with an
\* object that does not exist
C29_Witness ==
    /\ stk.phase = "done"
    /\ Len(stk.popped) >= 2
    /\ stk.popped[1].key = stk.exclude_key
    /\ stk.keys # <<>>
    /\ \E o \in stk.offered : o \notin stk.filled.stack

\* get_evictions has emptied the heap with used_size still above max_size
C29_WitnessEmpty ==
    /\ stk.phase = "done"
    /\ stk.stack.stack = {}
    /\ stk.stack.used_size > stk.filled.max_size
    /\ Len(stk.popped) >= 2

-----------------------------------------------------------------------------
(* Kosmo over a vector of policies (kosmo.rs, kosmo/global_object.rs,       *)
(* kosmo/evictions.rs).  The FIFO-only definitions further up are the      *)
(* instance policies = [Fifo]; here a global object carries one eviction   *)
(* map per policy and the driver one histogram per policy.  A policy is a  *)
(* pair <<name, parameters>> as in EvictionMapPolicy.                      *)

\* LruEvictionMap::reuse_distance
LruEvictionMap_reuse_distance(m, object) ==
    IF m.evicted_size > 0 THEN m.evicted_size ELSE object.size

\* LfuEvictionMap::reuse_distance: the loop over the records from the last
RECURSIVE LfuEvictionMap_reuse_distance_from(_, _, _)
LfuEvictionMap_reuse_distance_from(m, i, object) ==
    IF i = 0 THEN object.size
    ELSE IF m.map[i].count = m.global_count THEN m.map[i].size + 1
    ELSE LfuEvictionMap_reuse_distance_from(m, i - 1, object)

\* LfuEvictionMap::reuse_distance
LfuEvictionMap_reuse_distance(m, object) ==
    LfuEvictionMap_reuse_distance_from(m, Len(m.map), object)

\* EvictionMapPolicy::exists_at
EvictionMapPolicy_exists_at(e, sz) ==
    CASE e.kind = "lru"  -> LruEvictionMap_exists_at(e.map, sz)
      [] e.kind = "fifo" -> exists_at(e.map, sz)
      [] e.kind = "lfu"  -> count_at(e.map, sz) # None

\* EvictionMapPolicy::reuse_distance
EvictionMapPolicy_reuse_distance(e, object) ==
    CASE e.kind = "lru"  -> LruEvictionMap_reuse_distance(e.map, object)
      [] e.kind = "fifo" -> reuse_distance(e.map, object)
      [] e.kind = "lfu"  -> LfuEvictionMap_reuse_distance(e.map, object)

\* EvictionMapPolicy::as_local_object
EvictionMapPolicy_as_local_object(e, g, cache_size) ==
    CASE e.kind = "lru"  -> LruLocalObject(g, LruEvictionMap_exists_at(e.map, cache_size))
      [] e.kind = "fifo" -> FifoLocalObject(g, timestamp_at(e.map, cache_size))
      [] e.kind = "lfu"  -> LfuLocalObject(g, count_at(e.map, cache_size))

\* GlobalObject::new
GlobalObject_new(access, policies) ==
    [object |-> [timestamp |-> access.timestamp, key |-> access.key, size |-> access.size],
     eviction_maps |-> [i \in 1..Len(policies) |-> EvictionMapPolicy(policies[i], access)]]

\* GlobalObject::reuse_distances
GlobalObject_reuse_distances(g) ==
    [i \in 1..Len(g.eviction_maps) |->
        Some(EvictionMapPolicy_reuse_distance(g.eviction_maps[i], g.object))]

\* mutant: the eviction maps are left as they were
M_GlobalObject_update_timestamp_only(g, access) ==
    [g EXCEPT !.object.timestamp = access.timestamp]

\* GlobalObject::update
GlobalObject_update_policies(g, access) ==
    [g EXCEPT !.object.timestamp = access.timestamp,
              !.eviction_maps = [i \in 1..Len(g.eviction_maps) |->
                                    EvictionMapPolicy_update(g.eviction_maps[i], access)]]

\* GlobalObject::evict_by_policy_index
evict_by_policy_index(g, index, cache_size) ==
    [g EXCEPT !.eviction_maps[index] = EvictionMapPolicy_insert(@, cache_size)]

\* kwik::math::max over the reuse distances (all of them Some)
RECURSIVE math_max(_)
math_max(values) ==
    IF Len(values) = 1 THEN values[1]
    ELSE LET rest == math_max(Tail(values))
         IN  IF values[1][1] >= rest[1] THEN values[1] ELSE rest

\* Kosmo::new
KosmoP(policies, sh) ==
    [kind |-> "kosmo", policies |-> policies, shards |-> sh,
     global_table |-> <<>>, total_size |-> 0,
     histograms |-> [i \in 1..Len(policies) |-> Histogram(sh)]]

\* Kosmo::update_histograms; reuse_distances is the vector it computes
KosmoP_update_histograms(k, access) ==
    IF access.key \in DOMAIN k.global_table
    THEN LET g == k.global_table[access.key]
             reuse_distances == GlobalObject_reuse_distances(g)
         IN  [k |-> [k EXCEPT
                        !.global_table[access.key] = GlobalObject_update_policies(g, access),
                        !.histograms = [i \in 1..Len(k.histograms) |->
                                           Histogram_increment(k.histograms[i], k.shards,
                                                               reuse_distances[i])]],
              reuse_distances |-> reuse_distances,
              max_reuse_distance |-> math_max(reuse_distances)]
    ELSE [k |-> [k EXCEPT !.histograms = [i \in 1..Len(k.histograms) |->
                                             Histogram_increment(k.histograms[i], k.shards,
                                                                 None)]],
          reuse_distances |-> <<>>,
          max_reuse_distance |-> None]

\* the loop of reconstruct_policy_stacks for one stack: stack.insert of the
\* local object of every global object
RECURSIVE insert_local_objects(_, _)
insert_local_objects(s, objs) ==
    IF objs = {} THEN s
    ELSE LET o == CHOOSE x \in objs : TRUE
         IN  insert_local_objects(ReconstructedStack_insert(s, o), objs \ {o})

\* Kosmo::reconstruct_policy_stacks with Evictions::new: per policy, the
\* keys its stack of that size evicts.  The objects of a table differ in
\* timestamp, so the heap has one greatest element and get_evictions one
\* outcome.
KosmoP_reconstruct_policy_stacks(policies, sz, global_table, exclude_key) ==
    [i \in 1..Len(policies) |->
        LET locals == {EvictionMapPolicy_as_local_object(
                           global_table[key].eviction_maps[i], global_table[key], sz) :
                               key \in DOMAIN global_table}
            stack  == insert_local_objects(ReconstructedStack(policies[i][1], sz), locals)
        IN  (CHOOSE r \in stack_get_evictions(stack, exclude_key, <<>>, <<>>) : TRUE).keys]

\* Kosmo::evict_with_key
KosmoP_evict_with_key(global_table, policy_index, key, cache_size) ==
    IF key \in DOMAIN global_table
    THEN [global_table EXCEPT ![key] = evict_by_policy_index(@, policy_index, cache_size)]
    ELSE global_table

\* while let Some(key) = evictions.get_key(policy_index): the keys from the
\* last one of the vector (every key is new to evicted_policy_keys)
RECURSIVE KosmoP_evict_keys(_, _, _, _)
KosmoP_evict_keys(global_table, policy_index, keys, cache_size) ==
    IF keys = <<>> THEN global_table
    ELSE KosmoP_evict_keys(
             KosmoP_evict_with_key(global_table, policy_index, back(keys), cache_size),
             policy_index, pop_back(keys), cache_size)

\* for policy_index in 0..self.policies.len()
RECURSIVE KosmoP_evict_policies(_, _, _, _)
KosmoP_evict_policies(global_table, evictions, policy_index, cache_size) ==
    IF policy_index > Len(evictions) THEN global_table
    ELSE KosmoP_evict_policies(
             KosmoP_evict_keys(global_table, policy_index, evictions[policy_index],
                               cache_size),
             evictions, policy_index + 1, cache_size)

\* mutant: the cache sizes are taken from the smallest up
RECURSIVE M_KosmoP_apply_evictions_ascending(_, _, _, _)
M_KosmoP_apply_evictions_ascending(global_table, policy_evictions, index, step_size) ==
    IF index = 0 THEN global_table
    ELSE KosmoP_evict_policies(
             M_KosmoP_apply_evictions_ascending(global_table, policy_evictions, index - 1,
                                                step_size),
             policy_evictions[index], 1, index * step_size)

\* for (index, evictions) in policy_evictions.iter_mut().enumerate().rev(),
\* with cache_size = (index + 1) * step_size for the 0-based index (in an
\* empty table evict_with_key finds no object to change)
RECURSIVE KosmoP_apply_evictions(_, _, _, _)
KosmoP_apply_evictions(global_table, policy_evictions, index, step_size) ==
    IF index = 0 \/ DOMAIN global_table = {} THEN global_table
    ELSE KosmoP_apply_evictions(
             KosmoP_evict_policies(global_table, policy_evictions[index], 1,
                                   index * step_size),
             policy_evictions, index - 1, step_size)

\* mutant: the range of cache sizes ends at simulate_size
M_KosmoP_stack_sizes_short(step_size, simulate_size) ==
    IF step_size > simulate_size THEN <<>>
    ELSE step_by(step_size, simulate_size, step_size)

\* the cache sizes perform_evictions reconstructs:
\* (step_size..(simulate_size + step_size)).step_by(step_size), none after
\* the early return
KosmoP_stack_sizes(step_size, simulate_size) ==
    IF step_size > simulate_size THEN <<>>
    ELSE step_by(step_size, simulate_size + step_size, step_size)

\* the parallel map of perform_evictions, collected in the order of the sizes
KosmoP_policy_evictions(k, access, simulate_size) ==
    LET step_size == eviction_step_size(access, simulate_size)
        sizes     == KosmoP_stack_sizes(step_size, simulate_size)
    IN  [index \in 1..Len(sizes) |->
            KosmoP_reconstruct_policy_stacks(k.policies, sizes[index], k.global_table,
                                             access.key)]

\* Kosmo::perform_evictions
KosmoP_perform_evictions(k, access, simulate_size) ==
    LET step_size        == eviction_step_size(access, simulate_size)
        policy_evictions == KosmoP_policy_evictions(k, access, simulate_size)
    IN  [k EXCEPT !.global_table =
            KosmoP_apply_evictions(k.global_table, policy_evictions,
                                   Len(policy_evictions), step_size)]

\* Kosmo::process up to the call of perform_evictions
KosmoP_before_evictions(k, access) ==
    LET u == KosmoP_update_histograms(k, access)
    IN  IF u.max_reuse_distance = None
        THEN LET total_size == u.k.total_size + access.size
             IN  [k |-> [u.k EXCEPT !.total_size = total_size,
                                    !.global_table =
                                        MapInsert(u.k.global_table, access.key,
                                                  GlobalObject_new(access, k.policies))],
                  simulate_size |-> total_size]
        ELSE [k |-> u.k, simulate_size |-> u.max_reuse_distance[1]]

\* Kosmo::process
KosmoP_process(k, access) ==
    LET b == KosmoP_before_evictions(k, access)
    IN  KosmoP_perform_evictions(b.k, access, b.simulate_size)

-----------------------------------------------------------------------------
(* SpecKosmo: Kosmo::process, one valid access after another, without      *)
(* SHARDS.  cur keeps the access, the accesses before it, the driver as it *)
(* was, and what process computed on the way (history).                    *)

MaxKosmoAccesses == 4       \* accesses per trace
KosmoTiny        == 2000    \* the object sizes of a trace
KosmoSmall       == 40000
KosmoLarge       == 65536

KosmoPolicySets ==
    {<<<<"lru", NoCfg>>>>, <<<<"fifo", NoCfg>>>>, <<<<"lfu", NoCfg>>>>,
     <<<<"lru", NoCfg>>, <<"fifo", NoCfg>>, <<"lfu", NoCfg>>>>}

KosmoAccesses(ts) ==
    {Access(ts, "Get", k, sz) : k \in Keys, sz \in {KosmoTiny, KosmoSmall, KosmoLarge}}

NoProcess(k) ==
    [access |-> Access(0, "Get", 0, 0), trace |-> <<>>, before |-> k, mid |-> k, hit |-> FALSE,
     reuse_distances |-> <<>>, simulate_size |-> 0, step_size |-> 0, sizes |-> <<>>,
     policy_evictions |-> <<>>]

KosmoInit ==
    /\ alg \in {KosmoP(policies, NoShards) : policies \in KosmoPolicySets}
    /\ pc = "idle"
    /\ cur = NoProcess(alg)

\* algorithm.process(access)
KosmoProcess ==
    /\ steps < MaxKosmoAccesses
    /\ steps' = steps + 1
    /\ \E access \in KosmoAccesses(steps + 1) :
          LET u == KosmoP_update_histograms(alg, access)
              b == KosmoP_before_evictions(alg, access)
              step_size == eviction_step_size(access, b.simulate_size)
          IN  /\ alg' = KosmoP_process(alg, access)
              /\ cur' = [access |-> access,
                         trace |-> IF cur.access.timestamp = 0 THEN <<>>
                                   ELSE Append(cur.trace, cur.access),
                         before |-> alg, mid |-> b.k,
                         hit |-> u.max_reuse_distance # None,
                         reuse_distances |-> u.reuse_distances,
                         simulate_size |-> b.simulate_size,
                         step_size |-> step_size,
                         sizes |-> KosmoP_stack_sizes(step_size, b.simulate_size),
                         policy_evictions |->
                             KosmoP_policy_evictions(b.k, access, b.simulate_size)]
    /\ pc' = pc

InitKosmo ==
    /\ KosmoInit
    /\ steps = 0
    /\ cache = NewCache("fifo", 0, NoCfg) /\ last = NoCall /\ after = NoAfter
    /\ hist = HistIdle /\ hlast = NoCall
    /\ RestIdle

NextKosmo == KosmoProcess /\ UNCHANGED <<cacheVars, histVars, restVars>>

SpecKosmo == InitKosmo /\ [][NextKosmo]_vars

-----------------------------------------------------------------------------
(* Claims about Kosmo::process (checked in SpecKosmo)                       *)

SeqElems(s) == {s[i] : i \in 1..Len(s)}

PolicyIndexes(name) == {p \in 1..Len(alg.policies) : alg.policies[p][1] = name}

\* the cache sizes at which the last access evicted the key under policy p
EvictedAt(p, key) ==
    {cur.sizes[i] : i \in {j \in 1..Len(cur.sizes) : key \in SeqElems(cur.policy_evictions[j][p])}}

SetMax(S) == CHOOSE x \in S : \A y \in S : y <= x
SetMin(S) == CHOOSE x \in S : \A y \in S : x <= y

\* C24: Kosmo applies the evictions of an access in descending cache-size
\* order, and afterwards the evicted_size of an LRU map is the largest cache
\* size at which its object was evicted during that access, for every object
\* evicted at least once.
C24_LruEvictedLargest ==
    \A p \in PolicyIndexes("lru") : \A key \in DOMAIN alg.global_table :
        EvictedAt(p, key) # {} =>
            alg.global_table[key].eviction_maps[p].map.evicted_size = SetMax(EvictedAt(p, key))

\* what the descending order leaves in an LRU map: the smallest cache size
\* at which the object was evicted during the access
C24_LruEvictedSmallest ==
    \A p \in PolicyIndexes("lru") : \A key \in DOMAIN alg.global_table :
        EvictedAt(p, key) # {} =>
            alg.global_table[key].eviction_maps[p].map.evicted_size = SetMin(EvictedAt(p, key))

\* an access has evicted an object from the LRU stacks of two cache sizes
C24_TwoSizes ==
    \E p \in PolicyIndexes("lru") : \E key \in DOMAIN alg.global_table :
        Cardinality(EvictedAt(p, key)) >= 2

\* an access has evicted an object from the LRU stack of one cache size only
C24_OneSize ==
    \E p \in PolicyIndexes("lru") : \E key \in DOMAIN alg.global_table :
        Cardinality(EvictedAt(p, key)) = 1

\* the total size of the objects that exist at a cache size under policy p
ExistingSize(global_table, p, sz) ==
    SumObjSizes({global_table[key].object :
                    key \in {k \in DOMAIN global_table :
                                EvictionMapPolicy_exists_at(global_table[k].eviction_maps[p], sz)}})

\* C26: after Kosmo has processed an access, for every cache size it
\* reconstructed and every configured policy, the objects that exist at that
\* size by the policy's eviction maps (the accessed object included) have a
\* total size of at most that size.
C26_ReconstructedFits ==
    \A p \in 1..Len(alg.policies) : \A i \in 1..Len(cur.sizes) :
        ExistingSize(alg.global_table, p, cur.sizes[i]) <= cur.sizes[i]

\* the same for the FIFO and LFU policies only
C26_FifoLfuFit ==
    \A p \in PolicyIndexes("fifo") \cup PolicyIndexes("lfu") : \A i \in 1..Len(cur.sizes) :
        ExistingSize(alg.global_table, p, cur.sizes[i]) <= cur.sizes[i]

\* the last access evicted objects at a cache size under FIFO and under LFU
C26_Reached ==
    /\ \E p \in PolicyIndexes("fifo") : \E i \in 1..Len(cur.sizes) :
          cur.policy_evictions[i][p] # <<>>
    /\ \E p \in PolicyIndexes("lfu") : \E i \in 1..Len(cur.sizes) :
          cur.policy_evictions[i][p] # <<>>

\* the accesses processed so far
Processed == IF cur.access.timestamp = 0 THEN <<>> ELSE Append(cur.trace, cur.access)

\* every key of the trace has one size
FixedKeySizes ==
    \A i, j \in 1..Len(Processed) :
        Processed[i].key = Processed[j].key => Processed[i].size = Processed[j].size

\* the objects of the trace have one size
UniformSizes ==
    \A i, j \in 1..Len(Processed) : Processed[i].size = Processed[j].size

C26_FixedKeySizesFit ==
    FixedKeySizes =>
        \A p \in PolicyIndexes("fifo") \cup PolicyIndexes("lfu") : \A i \in 1..Len(cur.sizes) :
            ExistingSize(alg.global_table, p, cur.sizes[i]) <= cur.sizes[i]

C26_FixedKeySizesLruFit ==
    FixedKeySizes =>
        \A p \in PolicyIndexes("lru") : \A i \in 1..Len(cur.sizes) :
            ExistingSize(alg.global_table, p, cur.sizes[i]) <= cur.sizes[i]


\* process has run at least once
HasProcessed == cur.access.timestamp # 0

\* the count of the bucket of the given size, zero when there is none
CountAt(h, sz) ==
    LET at == {i \in 1..Len(h.buckets) : h.buckets[i].size = sz}
    IN  IF at = {} THEN RZero ELSE h.buckets[CHOOSE i \in at : TRUE].count

BucketSizes(h) == {h.buckets[i].size : i \in 1..Len(h.buckets)}

\* histogram h2 is h1 with one more count, in the bucket of the rounded
\* reuse distance (Some) or in the infinity bucket (None)
OneIncrement(h1, h2, rd) ==
    LET at == IF rd = None THEN {}
              ELSE {get_rounded_reuse_distance(rd[1])}
    IN  /\ REq(h2.infinity.count,
               IF rd = None THEN RAdd(h1.infinity.count, ROne)
               ELSE h1.infinity.count)
        /\ BucketSizes(h2) = BucketSizes(h1) \cup at
        /\ \A sz \in BucketSizes(h2) :
              REq(CountAt(h2, sz),
                  IF sz \in at THEN RAdd(CountAt(h1, sz), ROne) ELSE CountAt(h1, sz))

\* C27: on an access to a key already in global_table every policy's reuse
\* distance is the one of the eviction map as it was before the access, all
\* maps are then updated with the access, and each policy's histogram gets
\* exactly one increment, at its own distance; on an access to a new key each
\* histogram's infinity bucket gets exactly one increment, the object is
\* added with the access's size and total_size grows by access.size.
C27_UpdateHistograms ==
    HasProcessed =>
        LET key == cur.access.key
            n   == Len(alg.policies)
        IN  /\ Len(alg.histograms) = n
            /\ IF key \in DOMAIN cur.before.global_table
               THEN LET g == cur.before.global_table[key]
                    IN  /\ cur.hit
                        /\ Len(cur.reuse_distances) = n
                        /\ \A i \in 1..n :
                              /\ cur.reuse_distances[i] =
                                     Some(EvictionMapPolicy_reuse_distance(g.eviction_maps[i],
                                                                           g.object))
                              /\ cur.mid.global_table[key].eviction_maps[i] =
                                     EvictionMapPolicy_update(g.eviction_maps[i], cur.access)
                              /\ OneIncrement(cur.before.histograms[i], alg.histograms[i],
                                              cur.reuse_distances[i])
                        /\ cur.mid.global_table[key].object.timestamp = cur.access.timestamp
                        /\ DOMAIN alg.global_table = DOMAIN cur.before.global_table
                        /\ alg.total_size = cur.before.total_size
               ELSE /\ ~cur.hit
                    /\ \A i \in 1..n :
                          OneIncrement(cur.before.histograms[i], alg.histograms[i], None)
                    /\ DOMAIN alg.global_table = DOMAIN cur.before.global_table \cup {key}
                    /\ cur.mid.global_table[key] = GlobalObject_new(cur.access, alg.policies)
                    /\ alg.global_table[key].object.size = cur.access.size
                    /\ alg.total_size = cur.before.total_size + cur.access.size

\* a hit under the three policies together whose distances differ and whose
\* maps were changed since the object was created
C27_Witness ==
    /\ HasProcessed /\ cur.hit /\ Len(alg.policies) = 3
    /\ \E i, j \in 1..3 : cur.reuse_distances[i] # cur.reuse_distances[j]
    /\ \E i \in 1..3 :
          get_rounded_reuse_distance(cur.reuse_distances[i][1]) > BUCKET_SIZE
    /\ \A t \in 1..Len(cur.trace) :
          cur.before.global_table[cur.access.key].eviction_maps #
              GlobalObject_new(cur.trace[t], alg.policies).eviction_maps

\* a cold access after other accesses
C27_WitnessCold ==
    /\ HasProcessed /\ ~cur.hit /\ Len(cur.trace) >= 2 /\ Len(alg.policies) = 3


\* the multiples of step from step up to the bound
Multiples(step, bound) == {m * step : m \in 1..(bound \div step)}

\* the eviction-map sizes that differ between two states of one object
ChangedLruSizes(g1, g2) ==
    {g2.eviction_maps[i].map.evicted_size :
        i \in {j \in 1..Len(g2.eviction_maps) :
                  /\ g2.eviction_maps[j].kind = "lru"
                  /\ g2.eviction_maps[j] # g1.eviction_maps[j]}}

\* what C28 says of the step and of the evictions, but for the set of sizes
StepAndSkip ==
    /\ cur.simulate_size =
           IF cur.hit THEN SetMax({cur.reuse_distances[i][1] :
                                      i \in 1..Len(cur.reuse_distances)})
           ELSE alg.total_size
    /\ cur.step_size >= MIN_RECONSTRUCTED_STACK_SIZE
    /\ cur.step_size >= cur.access.size
    /\ cur.step_size * GRANULARITY >= cur.simulate_size
    /\ \/ cur.step_size = MIN_RECONSTRUCTED_STACK_SIZE
       \/ cur.step_size = cur.access.size
       \/ (cur.step_size - 1) * GRANULARITY < cur.simulate_size
    /\ Len(cur.policy_evictions) = Len(cur.sizes)
    /\ \A i, j \in 1..Len(cur.sizes) : i < j => cur.sizes[i] < cur.sizes[j]
    /\ cur.step_size > cur.simulate_size =>
           /\ cur.sizes = <<>>
           /\ alg.global_table = cur.mid.global_table
    /\ \A key \in DOMAIN alg.global_table :
          ChangedLruSizes(cur.mid.global_table[key], alg.global_table[key])
              \subseteq SeqElems(cur.sizes)

\* C28 as stated: step = max(1024, access.size, ceil(simulate_size / 10)),
\* simulate_size being the greatest reuse distance on a hit and total_size on
\* a cold access; no eviction map changes in the eviction phase when step >
\* simulate_size, and otherwise the stacks are reconstructed at exactly the
\* multiples of step up to and including simulate_size + step.
C28_SizesInclusive ==
    HasProcessed =>
        /\ StepAndSkip
        /\ cur.step_size <= cur.simulate_size =>
               SeqElems(cur.sizes) =
                   Multiples(cur.step_size, cur.simulate_size + cur.step_size)

\* C28, amended: the same, the stacks being reconstructed at exactly the
\* multiples of step below simulate_size + step (the range excludes its end).
C28_SizesExclusive ==
    HasProcessed =>
        /\ StepAndSkip
        /\ cur.step_size <= cur.simulate_size =>
               SeqElems(cur.sizes) =
                   Multiples(cur.step_size, cur.simulate_size + cur.step_size - 1)

\* simulate_size is a multiple of the step: no stack at simulate_size + step
C28_Witness ==
    /\ HasProcessed
    /\ cur.step_size <= cur.simulate_size
    /\ cur.simulate_size % cur.step_size = 0
    /\ Len(cur.sizes) >= 2
    /\ alg.global_table # cur.mid.global_table

\* simulate_size is not a multiple of the step and the step is its tenth
C28_WitnessTenth ==
    /\ HasProcessed
    /\ cur.step_size <= cur.simulate_size
    /\ cur.simulate_size % cur.step_size # 0
    /\ cur.step_size > cur.access.size

\* the eviction phase is skipped on a hit
C28_WitnessSkip ==
    /\ HasProcessed /\ cur.hit
    /\ cur.step_size > cur.simulate_size


\* the position of the last access to key in the trace, 0 when there is none
LastAccess(trace, key) ==
    SetMax({0} \cup {i \in 1..Len(trace) : trace[i].key = key})

\* Mattson's LRU stack distance of a re-access, in bytes: the sizes of the
\* distinct objects accessed since the last access to the key, its own
\* included (the least LRU cache size at which the re-access hits)
MattsonDistance(trace, access) ==
    LET from == LastAccess(trace, access.key)
    IN  Cardinality({trace[i].key : i \in from..Len(trace)}) * access.size

\* Kosmo with the one policy LRU on a trace of objects of one size
LruUniform ==
    /\ HasProcessed
    /\ alg.policies = <<<<"lru", NoCfg>>>>
    /\ UniformSizes

\* C21: Kosmo with the single policy LRU on a trace whose objects all have
\* the same size records each re-access in the histogram bucket of the reuse
\* distance that Mattson's LRU stack algorithm gives for it.
C21_MattsonLru ==
    (LruUniform /\ cur.hit) =>
        get_rounded_reuse_distance(cur.reuse_distances[1][1]) =
            get_rounded_reuse_distance(MattsonDistance(cur.trace, cur.access))

\* what holds instead: the recorded distance is below Mattson's
C21_BelowMattson ==
    (LruUniform /\ cur.hit) =>
        cur.reuse_distances[1][1] < MattsonDistance(cur.trace, cur.access)

\* a re-access with two other objects in between is recorded
C21_Reached ==
    /\ LruUniform /\ cur.hit
    /\ MattsonDistance(cur.trace, cur.access) = 3 * cur.access.size

\* a re-access recorded in Mattson's bucket
C21_Agree ==
    /\ LruUniform /\ cur.hit
    /\ cur.access.size = KosmoLarge
    /\ get_rounded_reuse_distance(cur.reuse_distances[1][1]) =
           get_rounded_reuse_distance(MattsonDistance(cur.trace, cur.access))


-----------------------------------------------------------------------------
(* Kosmo's total_size (checked under SpecAlg)                               *)

\* the sum of the sizes of the objects in global_table
RECURSIVE TableSizeOf(_, _)
TableSizeOf(global_table, keys) ==
    IF keys = {} THEN 0
    ELSE LET key == CHOOSE x \in keys : TRUE
         IN  global_table[key].object.size + TableSizeOf(global_table, keys \ {key})

TableSize(a) == TableSizeOf(a.global_table, DOMAIN a.global_table)

\* C31: after every handle call Kosmo's total_size equals the sum of the
\* sizes of the objects in global_table, also after calls in which a SHARDS
\* removal deleted an object.
C31_TotalSizeIsTableSize ==
    (alg.kind = "kosmo" /\ pc = "idle") => alg.total_size = TableSize(alg)

\* what holds instead: total_size is never below the sum, and equals the
\* sizes of all the objects ever added
C31_TotalSizeAtLeast ==
    (alg.kind = "kosmo" /\ pc = "idle") => alg.total_size >= TableSize(alg)

\* a handle call returned after SHARDS removed a stored object
C31_Reached ==
    /\ alg.kind = "kosmo" /\ pc = "idle" /\ cur.outcome = "processed"
    /\ cur.removed /\ cur.held
    /\ alg.global_table # <<>>

\* two objects are stored and nothing was ever removed
C31_Agree ==
    /\ alg.kind = "kosmo" /\ pc = "idle" /\ alg.shards.kind = "none"
    /\ Cardinality(DOMAIN alg.global_table) >= 2
    /\ alg.total_size = TableSize(alg)


-----------------------------------------------------------------------------
(* The total of a histogram (checked under SpecHist)                        *)

\* n increment calls, and no other call, were made on a histogram created
\* without SHARDS
OnlyIncrements(n) ==
    /\ hist.shards.kind = "none"
    /\ hlast.only_increments
    /\ steps = n

\* C32: without SHARDS, after n calls to increment on a newly created
\* histogram, cold or not, get_total() equals n.
C32_TotalIsCalls ==
    \A n \in 1..MaxHistSteps :
        OnlyIncrements(n) => get_total(hist.h) = Rat(n, 1)

\* what holds instead: the total is n + 1, the infinity bucket of a new
\* histogram having count 1
C32_TotalIsCallsPlusOne ==
    \A n \in 0..MaxHistSteps :
        OnlyIncrements(n) => get_total(hist.h) = Rat(n + 1, 1)

\* cold and non-cold increments were made, into a new and into an old bucket
C32_Reached ==
    /\ OnlyIncrements(MaxHistSteps)
    /\ RLt(ROne, hist.h.infinity.count)
    /\ Len(hist.h.buckets) >= 2
    /\ \E i \in 1..Len(hist.h.buckets) : RLt(ROne, hist.h.buckets[i].count)


-----------------------------------------------------------------------------
(* The LFU cache's count buckets (checked under Spec)                       *)

\* the count of the bucket that holds the key
BucketCount(c, key) == c.count_lists[CountListIndexOf(c, key)].count

\* the place of the key in its bucket, counted from the back of the list:
\* 1 is the object that entered the bucket first among those still in it
PlaceFromBack(c, key) ==
    LET l == c.count_lists[CountListIndexOf(c, key)].list
    IN  Len(l) + 1 - (CHOOSE j \in 1..Len(l) : l[j].key = key)

\* the buckets are in strictly increasing count order, none is empty, and
\* they hold every key of the index once
BucketsOrdered(c) ==
    /\ \A i \in 1..Len(c.count_lists) :
          /\ c.count_lists[i].list # <<>>
          /\ c.count_lists[i].count >= 1
          /\ \A j \in 1..Len(c.count_lists) :
                i < j => c.count_lists[i].count < c.count_lists[j].count
    /\ Len(StoredObjects(c)) = Cardinality(DOMAIN c.map)
    /\ SeqKeys(StoredObjects(c)) = DOMAIN c.map

\* key e goes before key s in the eviction order: a lower count, or the
\* same bucket and an earlier entry into it
EvictedFirst(c, e, s) ==
    \/ BucketCount(c, e) < BucketCount(c, s)
    \/ /\ BucketCount(c, e) = BucketCount(c, s)
       /\ PlaceFromBack(c, e) < PlaceFromBack(c, s)

\* one call on the LFU cache: a key that becomes stored starts in bucket 1;
\* a get that hits moves its key up by one bucket and to the front of it; no
\* other stored key changes its bucket or its order among the keys of its
\* bucket; a key that is evicted went before every key that stays
LfuStep ==
    LET was    == DOMAIN cache.map
        is     == DOMAIN cache'.map
        hitkey == IF last'.op \in {"get", "handle_self_populating"} /\ last'.hit
                  THEN {last'.key} ELSE {}
    IN  /\ \A k \in is \ was : BucketCount(cache', k) = 1
        /\ \A k \in hitkey :
              /\ k \in was /\ k \in is
              /\ BucketCount(cache', k) = BucketCount(cache, k) + 1
              /\ Head(cache'.count_lists[CountListIndexOf(cache', k)].list).key = k
        /\ \A k \in (was \cap is) \ hitkey :
              /\ BucketCount(cache', k) = BucketCount(cache, k)
              /\ \A j \in (was \cap is) \ hitkey :
                    EvictedFirst(cache, k, j) => EvictedFirst(cache', k, j)
        /\ last'.op \in {"set", "handle_self_populating", "reduce", "resize"} =>
              \A e \in was \ is : \A s \in was \cap is : EvictedFirst(cache, e, s)

\* C33: in the LFU cache the count buckets are always in strictly increasing
\* count order with no empty bucket, every stored object is in the bucket
\* whose count is 1 plus the number of hits it has received since it was
\* set, and eviction removes from the lowest-count bucket the object that
\* entered that bucket earliest.
C33_LfuBuckets ==
    /\ [](cache.policy = "lfu" => BucketsOrdered(cache))
    /\ [][(cache.policy = "lfu" /\ cache'.status = "ok") => LfuStep]_vars

\* a set evicted an object of bucket 1 that was admitted after an object
\* which has been hit and stays in a higher bucket
C33_Witness ==
    /\ cache.policy = "lfu" /\ cache.status = "ok"
    /\ last.op = "set" /\ last.evicted = 1
    /\ Len(cache.count_lists) = 2
    /\ \E k \in DOMAIN cache.map :
          /\ BucketCount(cache, k) = 2
          /\ \E o \in after[k].others : o.key \notin DOMAIN cache.map

\* a set evicted the oldest object of bucket 1 and two objects share the
\* bucket now
C33_WitnessOldest ==
    /\ cache.policy = "lfu" /\ cache.status = "ok"
    /\ last.op = "set" /\ last.evicted = 1
    /\ Len(cache.count_lists) = 1
    /\ Len(cache.count_lists[1].list) = 2


-----------------------------------------------------------------------------
(* The order of TwoQCache::reduce (checked under Spec)                      *)

IsFrontOf(s, t) == Len(s) <= Len(t) /\ s = SubSeq(t, 1, Len(s))

\* the call stored a new object: process_set ran reduce(max_size - size)
\* and pushed the object to the front of Ain
StoredNew ==
    /\ last'.op \in {"set", "handle_self_populating"}
    /\ last'.key \notin DOMAIN cache.map
    /\ last'.key \in DOMAIN cache'.map

\* the target of the reduce that ran in the call
ReduceTarget == IF StoredNew THEN cache.max_size - last'.size ELSE last'.target

\* what one reduce(target) has done to the three queues, stated from the
\* queues before (cache) and after (cache') the call and not from the loops:
\* ain, aout, am are the queues after reduce (Ain without the object a set
\* pushes afterwards), pool is Aout as it would be with every demoted object
\* and no eviction
TwoQReduceStep ==
    LET target      == ReduceTarget
        object_size == (cache.max_size - target) % U32_MODULUS
        ain_cap     == FloorMul(cache.kin, cache.max_size)
        aout_cap    == FloorMul(cache.kout, cache.max_size)
        ain0        == cache.ain.stack
        ain         == IF StoredNew THEN Tail(cache'.ain.stack) ELSE cache'.ain.stack
        aout        == cache'.aout.stack
        am          == cache'.am.stack
        pool        == SubSeq(ain0, Len(ain) + 1, Len(ain0)) \o cache.aout.stack
    IN  \* 1. Ain tails are demoted until the object fits or Ain is empty
        /\ IsFrontOf(ain, ain0)
        /\ ain = <<>> \/ SumSizes(ain) + object_size <= ain_cap
        /\ Len(ain) < Len(ain0) =>
              SumSizes(SubSeq(ain0, 1, Len(ain) + 1)) + object_size > ain_cap
        \* 2. Aout tails are evicted while Aout is over its share, or is
        \*    non-empty with the total above the target
        /\ IsFrontOf(aout, pool)
        /\ SumSizes(aout) <= aout_cap
        /\ aout = <<>> \/ SumSizes(ain) + SumSizes(aout) + SumSizes(cache.am.stack) <= target
        /\ Len(aout) < Len(pool) =>
              LET longer == SubSeq(pool, 1, Len(aout) + 1)
              IN  \/ SumSizes(longer) > aout_cap
                  \/ SumSizes(ain) + SumSizes(longer) + SumSizes(cache.am.stack) > target
        \* 3. Am tails are evicted only then, while the total is above the target
        /\ IsFrontOf(am, cache.am.stack)
        /\ SumSizes(ain) + SumSizes(aout) + SumSizes(am) <= target
        /\ Len(am) < Len(cache.am.stack) =>
              /\ aout = <<>>
              /\ SumSizes(ain) + SumSizes(SubSeq(cache.am.stack, 1, Len(am) + 1)) > target
        \* the object of a set goes to the front of Ain, and the index follows
        /\ StoredNew => Head(cache'.ain.stack) =
                            [key |-> last'.key, size |-> last'.size]
        /\ DOMAIN cache'.map = SeqKeys(cache'.ain.stack) \cup SeqKeys(aout) \cup SeqKeys(am)
        /\ cache'.ain.size = SumSizes(cache'.ain.stack)
        /\ cache'.aout.size = SumSizes(aout)
        /\ cache'.am.size = SumSizes(am)

TwoQReduced ==
    /\ cache.policy = "2q" /\ cache'.status = "ok"
    /\ steps' = steps + 1
    /\ last'.op \in {"reduce", "resize"} \/ StoredNew

\* C34 (as stated): after every set on a 2Q cache Aout's size is at most
\* floor(kout * max_size)
C34_AoutBoundAfterEverySet ==
    (cache.policy = "2q" /\ cache.status = "ok" /\ last.op = "set") =>
        cache.aout.size <= FloorMul(cache.kout, cache.max_size)

\* C34 (amended): in the 2Q cache reduce first demotes Ain tails into Aout
\* until the incoming object fits within floor(kin * max_size) or Ain is
\* empty, then evicts Aout tails while Aout exceeds floor(kout * max_size) or
\* is non-empty with the total above the target, and only then evicts Am
\* tails; no Am object is evicted while Aout is non-empty, and after every
\* set that stores its object Aout's size is at most floor(kout * max_size).
C34_ReduceOrder ==
    [][/\ TwoQReduced => TwoQReduceStep
       /\ (cache.policy = "2q" /\ cache'.status = "ok" /\ StoredNew) =>
              cache'.aout.size <= FloorMul(cache'.kout, cache'.max_size)]_vars

\* a call has evicted an Am object; Aout is empty
C34_Witness ==
    /\ cache.policy = "2q" /\ cache.status = "ok"
    /\ last.op \in {"set", "reduce", "resize"} /\ last.evicted_am > 0
    /\ cache.aout.stack = <<>>

\* a set has demoted an Ain object into Aout and stored its own object
C34_WitnessDemoted ==
    /\ cache.policy = "2q" /\ cache.status = "ok"
    /\ last.op = "set" /\ last.key \in DOMAIN cache.map /\ ~last.stored_before
    /\ cache.aout.stack # <<>> /\ Len(cache.ain.stack) = 1

\* a resize has lowered max_size and left Aout above floor(kout * max_size);
\* the set that follows is for a stored key and changes nothing
C34_Reached ==
    /\ cache.policy = "2q" /\ cache.status = "ok"
    /\ last.op = "set" /\ last.stored_before
    /\ cache.aout.size > FloorMul(cache.kout, cache.max_size)


-----------------------------------------------------------------------------
(* The eviction order of the FIFO cache (checked under Spec)                *)

\* key s was set after key e was set, both being stored (from the history
\* of admissions, not from the stack)
SetAfter(e, s) == \E o \in after[e].others : o.key = s

\* C35: in the FIFO cache get never changes the eviction order: a get leaves
\* the stack and the index as they are, and every object a call evicts was
\* set before every object that stays, whatever gets occurred in between.
C35_FifoOrder ==
    [][(cache.policy = "fifo" /\ cache'.status = "ok" /\ steps' = steps + 1) =>
          /\ last'.op = "get" =>
                /\ cache'.stack = cache.stack
                /\ cache'.map = cache.map
                /\ cache'.current_size = cache.current_size
          /\ last'.op \in {"set", "handle_self_populating", "reduce", "resize"} =>
                \A e \in (DOMAIN cache.map) \ (DOMAIN cache'.map) :
                    \A s \in (DOMAIN cache.map) \cap (DOMAIN cache'.map) :
                        SetAfter(e, s)]_vars

\* a set has evicted the oldest object although the one get of the run had
\* hit it, and an object set later, never hit, stays
C35_Witness ==
    /\ cache.policy = "fifo" /\ cache.status = "ok"
    /\ last.op = "set" /\ last.evicted = 1 /\ ~last.stored_before
    /\ cache.hits = ROne
    /\ \E k \in DOMAIN cache.map : k # last.key /\ ~after[k].hit


-----------------------------------------------------------------------------
(* The intrinsic timestamp of the LRFU cache (checked under Spec)           *)

LrfuCalled(ops) ==
    /\ cache.policy = "lrfu" /\ cache'.status = "ok"
    /\ steps' = steps + 1
    /\ last'.op \in ops

\* C36: the LRFU cache's intrinsic timestamp increases by exactly one on
\* every get, set and del call made on the cache.
C36_TimestampEveryCall ==
    [][LrfuCalled({"get", "set", "del"}) =>
          cache'.intrinsic_timestamp = cache.intrinsic_timestamp + 1]_vars

\* the timestamp increases by one on every del, and on every get and set
\* whose access is not larger than the cache; a get or set with a larger
\* access, and reduce, resize and rescale, leave it as it is
C36_TimestampProcessedCall ==
    [][/\ LrfuCalled({"get", "set"}) =>
              cache'.intrinsic_timestamp =
                  cache.intrinsic_timestamp + (IF last'.size > cache.max_size THEN 0 ELSE 1)
       /\ LrfuCalled({"del"}) =>
              cache'.intrinsic_timestamp = cache.intrinsic_timestamp + 1
       /\ LrfuCalled({"reduce", "resize", "rescale"}) =>
              cache'.intrinsic_timestamp = cache.intrinsic_timestamp]_vars

\* a get with an access larger than the cache has returned and the
\* timestamp is still 0
C36_Reached ==
    /\ cache.policy = "lrfu" /\ cache.status = "ok"
    /\ last.op = "get" /\ last.size > cache.max_size
    /\ cache.intrinsic_timestamp = 0

\* three calls, every one a get, set or del that was processed
C36_Agree ==
    /\ cache.policy = "lrfu" /\ cache.status = "ok"
    /\ last.op \in {"get", "set", "del"}
    /\ steps = 3 /\ cache.intrinsic_timestamp = 3


-----------------------------------------------------------------------------
(* TwoQEvictionMap::reuse_distance (checked under SpecMap)                  *)

\* (x as f64 / (self.kin + self.kout)) as u64: the cast truncates
TruncDiv(x, ratio) == (x * ratio.d) \div ratio.n

\* the .rev().find(..) over the LFU records, from the last one back
RECURSIVE find_smallest_am(_, _)
find_smallest_am(m, i) ==
    IF i = 0 THEN None
    ELSE IF m.lfu_global_count - m.lfu_map[i].count >= 2 THEN Some(m.lfu_map[i].size)
    ELSE find_smallest_am(m, i - 1)

\* TwoQEvictionMap::reuse_distance
TwoQEvictionMap_reuse_distance(m, object) ==
    LET smallest_a1 ==
            IF m.fifo_map # <<>>
            THEN TruncDiv(IF back(m.fifo_map).size >= object.size
                          THEN back(m.fifo_map).size ELSE object.size,
                          RAdd(m.kin, m.kout))
            ELSE TruncDiv(object.size, RAdd(m.kin, m.kout))
        smallest_am == find_smallest_am(m, Len(m.lfu_map))
    IN  IF smallest_am # None
        THEN (IF smallest_a1 <= smallest_am[1] THEN smallest_a1 ELSE smallest_am[1])
        ELSE smallest_a1

\* the least integer that is not below x / ratio
CeilQuot(x, ratio) == CHOOSE q \in 0..(x * ratio.d) :
                         /\ q * ratio.n >= x * ratio.d
                         /\ (q - 1) * ratio.n < x * ratio.d

\* the LFU records with global_count - count >= 2, and the one nearest to
\* the tail of the map
AmRecords(m) == {i \in 1..Len(m.lfu_map) : m.lfu_global_count - m.lfu_map[i].count >= 2}
LastAmRecord(m) == CHOOSE i \in AmRecords(m) : \A j \in AmRecords(m) : j <= i

\* min(smallest_A1, smallest_Am) with smallest_A1 as given
MinWithAm(m, smallest_a1) ==
    IF AmRecords(m) = {} THEN smallest_a1
    ELSE LET am == m.lfu_map[LastAmRecord(m)].size
         IN  IF am < smallest_a1 THEN am ELSE smallest_a1

FifoTailOrObject(m, sz) ==
    IF back(m.fifo_map).size > sz THEN back(m.fifo_map).size ELSE sz

\* C37: for the 2Q eviction map reuse_distance(object) is
\* min(smallest_A1, smallest_Am) with smallest_A1 =
\* ceil(max(fifo_tail.size, object.size) / (kin + kout)) and smallest_Am the
\* size of the first LFU record from the tail with global_count - count >= 2
\* (smallest_A1 alone when there is no such record).
C37_ReuseDistanceCeil ==
    emap.kind = "two_q" =>
        \A sz \in 1..MaxAccessSize :
            TwoQEvictionMap_reuse_distance(emap.map, Object(Access(1, "Get", 1, sz))) =
                MinWithAm(emap.map, CeilQuot(FifoTailOrObject(emap.map, sz),
                                            RAdd(emap.map.kin, emap.map.kout)))

\* the same with the quotient truncated
C37_ReuseDistanceTrunc ==
    emap.kind = "two_q" =>
        /\ emap.map.fifo_map # <<>>
        /\ \A sz \in 1..MaxAccessSize :
              TwoQEvictionMap_reuse_distance(emap.map, Object(Access(1, "Get", 1, sz))) =
                  MinWithAm(emap.map, TruncDiv(FifoTailOrObject(emap.map, sz),
                                               RAdd(emap.map.kin, emap.map.kout)))

\* kin + kout = 3/4, no LFU record that counts for Am, and the FIFO tail is
\* at size 2: the quotient 2 / 0.75 is not whole, the distance is 2, and at
\* cache size 2 A1 holds floor(0.5) + floor(1.0) = 1 byte
C37_Reached ==
    /\ emap.kind = "two_q" /\ emap.map.kin = Quarter
    /\ back(emap.map.fifo_map).size = 2
    /\ AmRecords(emap.map) = {}
    /\ TwoQEvictionMap_reuse_distance(emap.map, Object(Access(1, "Get", 1, 1))) = 2
    /\ a1_size(emap.map, 2) < 2

\* kin + kout = 1: the quotient is whole, and an LFU record below the
\* object's size gives the smaller distance
C37_Agree ==
    /\ emap.kind = "two_q" /\ emap.map.kin = Half
    /\ AmRecords(emap.map) # {}
    /\ TwoQEvictionMap_reuse_distance(emap.map, Object(Access(1, "Get", 1, MaxAccessSize)))
           = emap.map.lfu_map[LastAmRecord(emap.map)].size
    /\ emap.map.lfu_map[LastAmRecord(emap.map)].size < MaxAccessSize


-----------------------------------------------------------------------------
(* The key index and the policy structure of a cache (checked under Spec)   *)

\* the keys of a sequence of objects, each once
EachKeyOnce(s) == \A i, j \in 1..Len(s) : s[i].key = s[j].key => i = j

\* the queue of a 2Q cache that an index entry names
QueueNamed(c, name) ==
    CASE name = "Ain"  -> c.ain.stack
      [] name = "Aout" -> c.aout.stack
      [] name = "Am"   -> c.am.stack

IndexMatchesStructure(c) ==
    /\ SeqKeys(StoredObjects(c)) = DOMAIN c.map
    /\ EachKeyOnce(StoredObjects(c))
    /\ current_size(c) = SumSizes(StoredObjects(c))
    /\ c.policy = "2q" =>
          /\ \A k \in DOMAIN c.map :
                /\ c.map[k] \in {"Ain", "Aout", "Am"}
                /\ k \in SeqKeys(QueueNamed(c, c.map[k]))
          /\ c.ain.size = SumSizes(c.ain.stack)
          /\ c.aout.size = SumSizes(c.aout.stack)
          /\ c.am.size = SumSizes(c.am.stack)
    /\ c.policy = "lrfu" =>
          /\ \A i, j \in 1..Len(c.stack) :
                c.stack[i].last_access = c.stack[j].last_access => i = j
          /\ \A i \in 1..Len(c.stack) : c.map[c.stack[i].key] = c.stack[i]

\* C38: for each FIFO, LFU, LRFU and 2Q cache, after any sequence of calls
\* that returned, the key index and the policy structure hold exactly the
\* same keys, each key once (in 2Q, in exactly the queue its index entry
\* names; in LRFU, no two stored objects share a last_access value), and
\* current_size equals the sum of the sizes of the stored objects.
C38_IndexMatchesStructure == cache.status = "ok" => IndexMatchesStructure(cache)

\* a 2Q cache with an object in each of Ain, Aout and Am
C38_Witness ==
    /\ cache.policy = "2q" /\ cache.status = "ok"
    /\ cache.ain.stack # <<>> /\ cache.aout.stack # <<>> /\ cache.am.stack # <<>>

\* an LRFU cache after a del that removed one of two objects; the one left
\* has been hit by a get
C38_WitnessLrfu ==
    /\ cache.policy = "lrfu" /\ cache.status = "ok"
    /\ last.op = "del" /\ last.stored_before
    /\ Len(cache.stack) = 1
    /\ \E k \in DOMAIN cache.map : after[k].hit


-----------------------------------------------------------------------------
(* exists_at over the cache sizes (checked under SpecMap)                   *)

\* EvictionMap::exists_at of the map's policy
MapExistsAt(e, sz) ==
    CASE e.kind = "lru"   -> LruEvictionMap_exists_at(e.map, sz)
      [] e.kind = "fifo"  -> exists_at(e.map, sz)
      [] e.kind = "lfu"   -> count_at(e.map, sz) # None
      [] e.kind = "lrfu"  -> LrfuEvictionMap_exists_at(e.map, sz)
      [] e.kind = "two_q" -> stack_location_at(e.map, sz) # None

MonotoneExists(kinds) ==
    emap.kind \in kinds =>
        \A s1, s2 \in MapSizes : (s1 <= s2 /\ MapExistsAt(emap, s1)) => MapExistsAt(emap, s2)

\* C39: for every eviction map policy (LRU, FIFO, LFU, LRFU, 2Q), after any
\* sequence of update and insert calls exists_at is monotone in the cache
\* size: if the object exists at size s, it exists at every size s' >= s.
C39_ExistsMonotone == MonotoneExists({"lru", "fifo", "lfu", "lrfu", "two_q"})

\* after an eviction the object does not exist at size 1 and exists at the
\* largest size, under every policy
C39_Witness ==
    /\ emap.kind = "lrfu" /\ mlast.op = "insert" /\ mlast.prev_op = "update"
    /\ ~MapExistsAt(emap, 1)
    /\ MapExistsAt(emap, MaxEvictSize + 1)

C39_WitnessTwoQ ==
    /\ emap.kind = "two_q" /\ mlast.op = "insert" /\ mlast.prev_op = "update"
    /\ ~MapExistsAt(emap, 1)
    /\ MapExistsAt(emap, MaxEvictSize + 1)


-----------------------------------------------------------------------------
(* Termination of reduce (checked under SpecWide: caches whose max_size is  *)
(* above the range of the u32 that TwoQCache::reduce casts to)              *)

\* a max_size just above the modulus of the cast; TwoQCache::new takes any u64
WideCapacity == U32_MODULUS + 2

InitWide ==
    /\ cache \in {NewCache(cfg[1], WideCapacity, cfg[2]) : cfg \in CacheConfigs}
    /\ last = NoCall
    /\ after = NoAfter
    /\ steps = 0
    /\ alg = AlgIdle /\ pc = "idle" /\ cur = NoCall
    /\ hist = HistIdle /\ hlast = NoCall
    /\ RestIdle

SpecWide == InitWide /\ [][Next]_vars

\* C40: every call to reduce(target) with target <= max_size on a FIFO, LFU,
\* LRFU or 2Q cache terminates in every reachable cache state (the calls
\* made by set and resize included); the 2Q loop that evicts Am tails is
\* never entered with Am empty and the total still above the target.
C40_ReduceTerminates ==
    ~last.returned =>
        /\ last.op \in {"reduce", "resize"}
        /\ last.target > cache.max_size

\* the calls that do not return are those of a 2Q cache whose target is
\* above max_size (with overflow checks), or is so far below max_size that
\* max_size - target does not fit the u32
C40_TerminatesWithinCast ==
    ~last.returned =>
        /\ cache.policy = "2q"
        /\ last.op \in {"reduce", "resize"}
        /\ \/ cache.overflow_checks /\ last.target > cache.max_size
           \/ /\ last.target <= cache.max_size
              /\ cache.max_size - last.target >= U32_MODULUS
              /\ cache.status = "hang"

\* reduce(target) with target <= max_size is in the loop that evicts Am
\* tails: Am and Aout are empty, Ain holds objects, and the total is above
\* the target
C40_Reached ==
    /\ cache.policy = "2q" /\ cache.status = "hang"
    /\ last.op = "reduce" /\ last.target <= cache.max_size
    /\ cache.am.stack = <<>> /\ cache.aout.stack = <<>>
    /\ cache.ain.stack # <<>>
    /\ TwoQCache_current_size(cache) > last.target

\* a reduce of a wide 2Q cache that returned after an eviction: the
\* difference max_size - target is below the modulus after the cast
C40_Agree ==
    /\ cache.policy = "2q" /\ cache.max_size = WideCapacity
    /\ last.op = "reduce" /\ last.returned /\ last.evicted > 0

====
